---- MODULE Spec2Model ----
(***************************************************************************)
(* CrossWindow: a facade (WindowManager) that owns one platform backend    *)
(* (Win32, X11, macOS or the stub) and forwards every public call to it.   *)
(*                                                                         *)
(* The model has six specifications over the same variables.               *)
(*   Spec        one facade in use by a caller: the public operations, a   *)
(*               call at a time, against a desktop whose windows belong to *)
(*               other processes and may disappear between the validity    *)
(*               probe of an operation and its follow-up native calls.     *)
(*   SpecFacade  the lifetime of facades and backends: construction, move  *)
(*               construction, move assignment, destruction, and the       *)
(*               lifecycle calls Initialize and Shutdown, with a record of *)
(*               the most recent lifecycle call.                           *)
(*   SpecEnum    the enumeration calls (GetAllWindows, EnumerateWindows,   *)
(*               FindWindowsByTitle, FindWindowsByProcess) and             *)
(*               SetWindowOpacity with its argument, on a desktop that     *)
(*               does not change during the run.                           *)
(*   SpecStub    the build without a supported platform: every call on the *)
(*               stub backend.                                             *)
(*   SpecState   GetWindowInfo and GetWindowState, step by step as the     *)
(*               value is assembled, on a desktop whose windows change     *)
(*               between the steps.                                        *)
(*   SpecTrap    IsValidWindow of the X11 backend in its steps, called     *)
(*               from one or two threads, and the process-wide X error     *)
(*               handler.                                                  *)
(***************************************************************************)
EXTENDS Integers, Sequences, FiniteSets, TLC

(***************************************************************************)
(* Bounds of the model.                                                    *)
(***************************************************************************)
MaxHandle == 2      \* window handles are 1..MaxHandle; 0 is the null handle
MaxConns == 2       \* display connections XOpenDisplay can hand out
MaxFacades == 2     \* WindowManager objects of a run

Handles == 0 .. MaxHandle
Windows == 1 .. MaxHandle
ConnIds == 1 .. MaxConns
FacadeIds == 1 .. MaxFacades
BackendIds == FacadeIds    \* a backend is named after the facade that made it

Platforms == {"Win32", "X11", "macOS", "Stub"}

VARIABLES
    platform,   \* the backend variant selected at build time
    facades,    \* WindowManager objects: st, m_impl (0: null, moved from)
    impls,      \* backend objects: st, m_initialized, m_display, m_lastError, life
    conns,      \* display connections: st, owner (the backend that opened it)
    wins,       \* the desktop: per handle alive, title, shown, owned, pname, listed,
                \* flags
    call,       \* the public operation in progress or just returned
    proc,       \* the calling process: "running" or "crashed"
    ev,         \* the most recent backend lifecycle call (SpecFacade)
    zorder,     \* the order in which the platform lists windows
    scan,       \* the enumeration call in progress or just returned (SpecEnum)
    snap,       \* the state query in progress or just returned (SpecState)
    xerr        \* the process-wide X error handler and the threads that
                \* probe a handle (SpecTrap)

vars ==
    <<platform, facades, impls, conns, wins, call, proc, ev, zorder, scan, snap, xerr>>

(***************************************************************************)
(* The backend object.  m_display is 0 for nullptr, else a connection id.  *)
(* life is a history field: the backend's most recent lifecycle call.      *)
(***************************************************************************)
NewImpl ==
    [st |-> "live", m_initialized |-> FALSE, m_display |-> 0,
     m_lastError |-> "", life |-> "none"]

NoImpl ==
    [st |-> "unborn", m_initialized |-> FALSE, m_display |-> 0,
     m_lastError |-> "", life |-> "none"]

Core(b) ==
    [m_initialized |-> b.m_initialized, m_display |-> b.m_display,
     m_lastError |-> b.m_lastError]

SetLastError(b, text) == [b EXCEPT !.m_lastError = text]

IsInitialized(p, b) == IF p = "Stub" THEN FALSE ELSE b.m_initialized

(***************************************************************************)
(* Initialize.  env is the answer of the platform: XOpenDisplay succeeded  *)
(* (X11), the process is trusted for accessibility (macOS).  c is the      *)
(* connection XOpenDisplay returns when it succeeds.                       *)
(* The result: the backend after the call, the returned bool, and the      *)
(* connection acquired (0: none).                                          *)
(***************************************************************************)
WindowsInitialize(b) ==
    [impl |-> [b EXCEPT !.m_initialized = TRUE], ret |-> TRUE, acquired |-> 0]

\* Faulty variants of Initialize, to test the sensitivity of the properties:
\* one that opens the display again when already initialized, one that
\* fails without recording an error.
LinuxInitializeReopen(b, env, c) ==
    IF ~env
    THEN [impl |-> SetLastError([b EXCEPT !.m_display = 0],
                                "Failed to open X11 display"),
          ret |-> FALSE, acquired |-> 0]
    ELSE [impl |-> [b EXCEPT !.m_display = c, !.m_initialized = TRUE],
          ret |-> TRUE, acquired |-> c]

LinuxInitializeNoError(b, env, c) ==
    IF b.m_initialized
    THEN [impl |-> b, ret |-> TRUE, acquired |-> 0]
    ELSE IF ~env
         THEN [impl |-> [b EXCEPT !.m_display = 0], ret |-> FALSE, acquired |-> 0]
         ELSE [impl |-> [b EXCEPT !.m_display = c, !.m_initialized = TRUE],
               ret |-> TRUE, acquired |-> c]

\* A faulty variant that sets m_initialized before it opens the display.
LinuxInitializeFlagFirst(b, env, c) ==
    IF b.m_initialized
    THEN [impl |-> b, ret |-> TRUE, acquired |-> 0]
    ELSE IF ~env
         THEN [impl |-> SetLastError([b EXCEPT !.m_display = 0,
                                               !.m_initialized = TRUE],
                                     "Failed to open X11 display"),
               ret |-> FALSE, acquired |-> 0]
         ELSE [impl |-> [b EXCEPT !.m_display = c, !.m_initialized = TRUE],
               ret |-> TRUE, acquired |-> c]

LinuxInitialize(b, env, c) ==
    IF b.m_initialized
    THEN [impl |-> b, ret |-> TRUE, acquired |-> 0]
    ELSE IF ~env
         THEN [impl |-> SetLastError([b EXCEPT !.m_display = 0],
                                     "Failed to open X11 display"),
               ret |-> FALSE, acquired |-> 0]
         ELSE [impl |-> [b EXCEPT !.m_display = c, !.m_initialized = TRUE],
               ret |-> TRUE, acquired |-> c]

MacOSInitialize(b, env) ==
    [impl |-> [(IF env THEN b
                ELSE SetLastError(b, "Accessibility permissions required. Please grant access in System Preferences."))
               EXCEPT !.m_initialized = TRUE],
     ret |-> TRUE, acquired |-> 0]

\* A faulty variant that reports success.
StubInitializeSucceeds(b) ==
    [impl |-> [b EXCEPT !.m_initialized = TRUE], ret |-> TRUE, acquired |-> 0]

StubInitialize(b) ==
    [impl |-> SetLastError(b, "Platform not supported"),
     ret |-> FALSE, acquired |-> 0]

BackendInitialize(p, b, env, c) ==
    LET r == CASE p = "Win32" -> WindowsInitialize(b)
               [] p = "X11" -> LinuxInitialize(b, env, c)
               [] p = "macOS" -> MacOSInitialize(b, env)
               [] OTHER -> StubInitialize(b)
    IN [r EXCEPT !.impl.life = IF r.ret THEN "InitTrue" ELSE "InitFalse"]

(***************************************************************************)
(* Shutdown.  released is the connection handed to XCloseDisplay (0: no    *)
(* native release call).                                                   *)
(***************************************************************************)
WindowsShutdown(b) ==
    [impl |-> [b EXCEPT !.m_initialized = FALSE], released |-> 0]

\* Faulty variants of Shutdown: one that keeps the stale display pointer,
\* one that forgets to close the display, one that does nothing.
LinuxShutdownStale(b) ==
    IF b.m_display # 0
    THEN [impl |-> [b EXCEPT !.m_initialized = FALSE], released |-> b.m_display]
    ELSE [impl |-> [b EXCEPT !.m_initialized = FALSE], released |-> 0]

LinuxShutdownLeak(b) ==
    [impl |-> [b EXCEPT !.m_display = 0, !.m_initialized = FALSE], released |-> 0]

ShutdownNoop(b) == [impl |-> b, released |-> 0]

LinuxShutdown(b) ==
    IF b.m_display # 0
    THEN [impl |-> [b EXCEPT !.m_display = 0, !.m_initialized = FALSE],
          released |-> b.m_display]
    ELSE [impl |-> [b EXCEPT !.m_initialized = FALSE], released |-> 0]

MacOSShutdown(b) ==
    [impl |-> [b EXCEPT !.m_initialized = FALSE], released |-> 0]

StubShutdown(b) == [impl |-> b, released |-> 0]

BackendShutdown(p, b) ==
    LET r == CASE p = "Win32" -> WindowsShutdown(b)
               [] p = "X11" -> LinuxShutdown(b)
               [] p = "macOS" -> MacOSShutdown(b)
               [] OTHER -> StubShutdown(b)
    IN [r EXCEPT !.impl.life = "Shutdown"]

(***************************************************************************)
(* The display server's side of XOpenDisplay and XCloseDisplay.  A closed  *)
(* connection's slot is free again, as the Display structure's storage is. *)
(* XCloseDisplay on a connection that is not open (a stale pointer) is a   *)
(* double free; it is recorded in the slot as "corrupt", for good.         *)
(***************************************************************************)
NoConn == [st |-> "free", owner |-> 0]

FreshConn == IF \E c \in ConnIds : conns[c].st = "free"
             THEN CHOOSE c \in ConnIds :
                      /\ conns[c].st = "free"
                      /\ \A d \in ConnIds : conns[d].st = "free" => c <= d
             ELSE 0

XOpenDisplay(cs, c, owner) ==
    IF c = 0 THEN cs ELSE [cs EXCEPT ![c] = [st |-> "open", owner |-> owner]]

XCloseDisplay(cs, c) ==
    IF c = 0 THEN cs
    ELSE [cs EXCEPT ![c] = IF cs[c].st = "open" THEN NoConn
                           ELSE [st |-> "corrupt", owner |-> 0]]

OpenConnsOf(bid) == {c \in ConnIds : conns[c].st = "open" /\ conns[c].owner = bid}

(***************************************************************************)
(* The facade.  m_impl is 0 when the facade was moved from.                *)
(***************************************************************************)
NoFacade == [st |-> "unborn", m_impl |-> 0]

\* The most recent lifecycle call: the backend it was made on, what it
\* returned, the connection it acquired and the one it released (0: none),
\* whether the backend was initialized before it, whether it left the
\* backend's fields as they were, and the lifecycle call before it.
NoEvent ==
    [op |-> "none", b |-> 0, ret |-> FALSE, acquired |-> 0, released |-> 0,
     preInit |-> FALSE, same |-> TRUE, prevLife |-> "none"]

IdleCall ==
    [pc |-> "idle", op |-> "none", h |-> 0, rc |-> "none",
     preInit |-> FALSE, preLive |-> FALSE, native |-> <<>>, changed |-> FALSE]

\* A handle that names no window.  title and pname are sequences of
\* characters; owned: the window has an owner window (Win32); pname: the
\* display name of the owning process, empty when it cannot be resolved;
\* listed: the window manager's client list names the handle (X11);
\* flags: the conditions of the window besides shown, "maximized",
\* "fullscreen", "above" (topmost) and, on X11, "hidden", each the EWMH
\* state atom of that name on X11.
DeadWin ==
    [alive |-> FALSE, title |-> <<>>, shown |-> "hidden", owned |-> FALSE,
     pname |-> <<>>, listed |-> FALSE, flags |-> {}]

\* No enumeration call: op is the operation, pattern and cs its text and
\* case arguments, stop the call of the visitor that returns false (0:
\* none), h and opacity the arguments of SetWindowOpacity (opacity in
\* quarters), bits the width of unsigned long; result is the returned
\* sequence of handles, visits the handles the visitor was invoked on, rc
\* and native the return code and native value of SetWindowOpacity, valid
\* and info the answers of IsValidWindow and GetWindowInfo for result[i].
NoScan ==
    [pc |-> "idle", op |-> "none", pattern |-> <<>>, cs |-> FALSE, stop |-> 0,
     h |-> 0, opacity |-> 0, bits |-> 0, preInit |-> FALSE,
     result |-> <<>>, visits |-> <<>>, rc |-> "none", native |-> <<>>,
     i |-> 0, valid |-> "none", info |-> [rc |-> "none", handle |-> 0]]

\* The platform lists the windows by ascending handle.
\* No state query: op is GetWindowInfo or GetWindowState, h its handle, rc
\* its return code, isVisible and state the fields of the value assembled
\* so far (state is the set of the bits that are set, Normal the empty
\* set), moved whether a window changed while the query was assembling.
NoSnap ==
    [pc |-> "idle", op |-> "none", h |-> 0, rc |-> "none", preInit |-> FALSE,
     isVisible |-> FALSE, state |-> {}, moved |-> FALSE]

\* The threads that call IsValidWindow, each on a backend of its own.
Threads == {1, 2}

\* A thread outside IsValidWindow: h is the handle probed, old the local
\* oldHandler, entry the process-wide handler when the call was entered,
\* valid the local of that name.
IdleThread ==
    [pc |-> "idle", h |-> 0, old |-> "none", entry |-> "none", valid |-> FALSE]

\* X error handling of the process: handler is the handler installed
\* (Xlib's default one, the application's, or the swallowing lambda of
\* IsValidWindow), app the handler the application runs with, threads the
\* number of threads in use.
NoXerr ==
    [handler |-> "default", app |-> "default", threads |-> 0,
     thr |-> [t \in Threads |-> IdleThread]]

Ascending == [i \in 1 .. MaxHandle |-> i]

Running == proc = "running"

\* A destructor runs to completion: nothing else happens while a facade dies.
NoneDying == \A f \in FacadeIds : facades[f].st # "dying"

\* Facades are numbered in the order they come to life.
NextFacadeId(f) == \A g \in FacadeIds : g < f => facades[g].st # "unborn"

InitializeEvent(bid, r) ==
    [op |-> "Initialize", b |-> bid, ret |-> r.ret, acquired |-> r.acquired,
     released |-> 0, preInit |-> impls[bid].m_initialized,
     same |-> Core(r.impl) = Core(impls[bid]), prevLife |-> impls[bid].life]

ShutdownEvent(bid, r) ==
    [op |-> "Shutdown", b |-> bid, ret |-> FALSE, acquired |-> 0,
     released |-> r.released, preInit |-> impls[bid].m_initialized,
     same |-> Core(r.impl) = Core(impls[bid]), prevLife |-> impls[bid].life]

\* WindowManager::WindowManager()
Construct(f) ==
    /\ Running /\ NoneDying
    /\ facades[f].st = "unborn" /\ NextFacadeId(f)
    /\ facades' = [facades EXCEPT ![f] = [st |-> "live", m_impl |-> f]]
    /\ impls' = [impls EXCEPT ![f] = NewImpl]
    /\ UNCHANGED <<snap, xerr, zorder, scan, platform, conns, wins, call, proc, ev>>

\* WindowManager::Initialize on a facade that owns a backend
FacadeInitialize(f, env) ==
    /\ Running /\ NoneDying /\ call.pc = "idle" /\ scan.pc = "idle"
    /\ facades[f].st = "live" /\ facades[f].m_impl # 0
    /\ LET bid == facades[f].m_impl
           c == IF platform = "X11" /\ env THEN FreshConn ELSE 0
           r == BackendInitialize(platform, impls[bid], env, c)
       IN /\ (platform = "X11" /\ ~impls[bid].m_initialized /\ env) => c # 0
          /\ impls' = [impls EXCEPT ![bid] = r.impl]
          /\ conns' = XOpenDisplay(conns, r.acquired, bid)
          /\ ev' = InitializeEvent(bid, r)
    /\ UNCHANGED <<snap, xerr, zorder, scan, platform, facades, wins, call, proc>>

\* WindowManager::Shutdown on a facade that owns a backend
FacadeShutdown(f) ==
    /\ Running /\ NoneDying /\ call.pc = "idle" /\ scan.pc = "idle"
    /\ facades[f].st = "live" /\ facades[f].m_impl # 0
    /\ LET bid == facades[f].m_impl
           r == BackendShutdown(platform, impls[bid])
       IN /\ impls' = [impls EXCEPT ![bid] = r.impl]
          /\ conns' = XCloseDisplay(conns, r.released)
          /\ ev' = ShutdownEvent(bid, r)
    /\ UNCHANGED <<snap, xerr, zorder, scan, platform, facades, wins, call, proc>>

(***************************************************************************)
(* A forwarding method on a moved-from facade evaluates m_impl->impl with  *)
(* m_impl null: undefined behaviour.  The outcomes modelled: the process   *)
(* is terminated by the fault, or the call returns without touching any    *)
(* backend.                                                                *)
(***************************************************************************)
UseMovedFrom(f) ==
    /\ Running /\ NoneDying
    /\ facades[f].st = "live" /\ facades[f].m_impl = 0
    /\ proc' \in {"crashed", "running"}
    /\ UNCHANGED <<snap, xerr, zorder, scan, platform, facades, impls, conns, wins, call, ev>>

\* A faulty backend destructor that does not call Shutdown.
BackendDestructorDefaulted(p, b) == [impl |-> b, released |-> 0]

\* The backend destructor: ~WindowManagerLinux and its siblings call
\* Shutdown; the stub's destructor is defaulted.
BackendDestructor(p, b) ==
    IF p = "Stub" THEN [impl |-> b, released |-> 0]
    ELSE BackendShutdown(p, b)

\* unique_ptr<Impl> deleting the backend bid 
DeleteImpl(bid) ==
    LET r == BackendDestructor(platform, impls[bid])
    IN /\ impls' = [impls EXCEPT ![bid] = [NoImpl EXCEPT !.st = "destroyed"]]
       /\ conns' = XCloseDisplay(conns, r.released)
       /\ ev' = IF platform = "Stub" THEN ev ELSE ShutdownEvent(bid, r)

\* WindowManager(WindowManager &&) = default
MoveConstruct(f, g) ==
    /\ Running /\ NoneDying
    /\ f # g
    /\ facades[f].st = "unborn" /\ NextFacadeId(f)
    /\ facades[g].st = "live"
    /\ facades' = [facades EXCEPT ![f] = [st |-> "live", m_impl |-> facades[g].m_impl],
                                  ![g].m_impl = 0]
    /\ UNCHANGED <<snap, xerr, zorder, scan, platform, impls, conns, wins, call, proc, ev>>

\* WindowManager &operator=(WindowManager &&) = default: the backend the
\* target owned is deleted; a self-move leaves the facade as it is.
MoveAssign(f, g) ==
    /\ Running /\ NoneDying
    /\ facades[f].st = "live" /\ facades[g].st = "live"
    /\ IF f = g
       THEN UNCHANGED <<facades, impls, conns, ev>>
       ELSE /\ facades' = [facades EXCEPT ![f].m_impl = facades[g].m_impl,
                                          ![g].m_impl = 0]
            /\ IF facades[f].m_impl # 0
               THEN DeleteImpl(facades[f].m_impl)
               ELSE UNCHANGED <<impls, conns, ev>>
    /\ UNCHANGED <<snap, xerr, zorder, scan, platform, wins, call, proc>>

\* ~WindowManager, its body: Shutdown when a backend is owned and initialized
DestroyBody(f) ==
    /\ Running /\ NoneDying
    /\ facades[f].st = "live"
    /\ facades' = [facades EXCEPT ![f].st = "dying"]
    /\ IF facades[f].m_impl # 0
          /\ IsInitialized(platform, impls[facades[f].m_impl])
       THEN LET bid == facades[f].m_impl
                r == BackendShutdown(platform, impls[bid])
            IN /\ impls' = [impls EXCEPT ![bid] = r.impl]
               /\ conns' = XCloseDisplay(conns, r.released)
               /\ ev' = ShutdownEvent(bid, r)
       ELSE UNCHANGED <<impls, conns, ev>>
    /\ UNCHANGED <<snap, xerr, zorder, scan, platform, wins, call, proc>>

\* ~WindowManager, its members: m_impl deletes the backend it owns
DestroyMembers(f) ==
    /\ Running
    /\ facades[f].st = "dying"
    /\ facades' = [facades EXCEPT ![f] = [st |-> "destroyed", m_impl |-> 0]]
    /\ IF facades[f].m_impl # 0
       THEN DeleteImpl(facades[f].m_impl)
       ELSE UNCHANGED <<impls, conns, ev>>
    /\ UNCHANGED <<snap, xerr, zorder, scan, platform, wins, call, proc>>

InitFacade ==
    /\ platform \in Platforms
    /\ facades = [f \in FacadeIds |-> NoFacade]
    /\ impls = [b \in BackendIds |-> NoImpl]
    /\ conns = [c \in ConnIds |-> NoConn]
    /\ wins = [h \in Handles |-> DeadWin]
    /\ call = IdleCall
    /\ proc = "running"
    /\ ev = NoEvent
    /\ zorder = Ascending
    /\ scan = NoScan
    /\ snap = NoSnap
    /\ xerr = NoXerr

NextFacade ==
    \/ \E f \in FacadeIds : Construct(f)
    \/ \E f \in FacadeIds, env \in BOOLEAN : FacadeInitialize(f, env)
    \/ \E f \in FacadeIds : FacadeShutdown(f)
    \/ \E f \in FacadeIds : UseMovedFrom(f)
    \/ \E f, g \in FacadeIds : MoveConstruct(f, g)
    \/ \E f, g \in FacadeIds : MoveAssign(f, g)
    \/ \E f \in FacadeIds : DestroyBody(f)
    \/ \E f \in FacadeIds : DestroyMembers(f)

SpecFacade == InitFacade /\ [][NextFacade]_vars

(***************************************************************************)
(* The desktop.  A window belongs to another process; PidOf is the process *)
(* that owns it.  shown is "normal", "iconic" (minimized) or "hidden"      *)
(* (unmapped, not on screen).                                              *)
(***************************************************************************)
PidOf(h) == (h + 1) \div 2

LiveWin ==
    [alive : {TRUE}, title : {<<"A", "b">>}, shown : {"normal", "iconic", "hidden"},
     owned : {FALSE}, pname : {<<"A", "b">>}, listed : {TRUE}, flags : {{}}]

IsLiveWindow(ws, h) == h \in Windows /\ ws[h].alive

SetShown(ws, h, s) ==
    IF IsLiveWindow(ws, h) THEN [ws EXCEPT ![h].shown = s] ELSE ws

KillPid(ws, pid) ==
    [g \in Handles |-> IF g \in Windows /\ PidOf(g) = pid THEN DeadWin ELSE ws[g]]

(***************************************************************************)
(* What a native mutating call does to the desktop: nc is the call, h the  *)
(* window it addresses.  A call on a window that no longer exists changes  *)
(* nothing.  Calls whose effect (title, geometry, stacking, opacity,       *)
(* activation, a posted close request) is not part of the desktop record   *)
(* change nothing here and are visible in the call's native log.           *)
(***************************************************************************)
NativeEffect(ws, nc, h) ==
    CASE nc \in {"ShowWindow(SW_MINIMIZE)", "XIconifyWindow",
                 "AXSet(kAXMinimized,true)"} -> SetShown(ws, h, "iconic")
      [] nc \in {"ShowWindow(SW_MAXIMIZE)", "ShowWindow(SW_RESTORE)",
                 "XMapWindow"} -> SetShown(ws, h, "normal")
      [] nc = "ShowWindow(SW_SHOW)" ->
             IF IsLiveWindow(ws, h) /\ ws[h].shown = "hidden"
             THEN SetShown(ws, h, "normal") ELSE ws
      [] nc = "AXSet(kAXMinimized,false)" ->
             IF IsLiveWindow(ws, h) /\ ws[h].shown = "iconic"
             THEN SetShown(ws, h, "normal") ELSE ws
      [] nc \in {"ShowWindow(SW_HIDE)", "XUnmapWindow"} -> SetShown(ws, h, "hidden")
      [] nc \in {"TerminateProcess", "XKillClient"} ->
             IF IsLiveWindow(ws, h) THEN KillPid(ws, PidOf(h)) ELSE ws
      [] OTHER -> ws

RECURSIVE ApplyCalls(_, _, _)
ApplyCalls(ws, ncs, h) ==
    IF ncs = <<>> THEN ws
    ELSE ApplyCalls(NativeEffect(ws, Head(ncs), h), Tail(ncs), h)

NativeLog(ncs, h) == [i \in 1 .. Len(ncs) |-> <<ncs[i], h>>]

(***************************************************************************)
(* The public operations.                                                  *)
(***************************************************************************)
HandleQueries ==
    {"GetWindowInfo", "GetWindowTitle", "GetWindowRect", "GetWindowState",
     "GetWindowProcessId"}

ResultQueries == HandleQueries \cup {"GetFocusedWindowInfo"}

BoolQueries == {"IsWindowVisible", "IsValidWindow"}

Mutations ==
    {"CloseWindow", "ForceCloseWindow", "MinimizeWindow", "MaximizeWindow",
     "RestoreWindow", "ShowWindow", "HideWindow", "FocusWindow",
     "SetAlwaysOnTop", "SetWindowRect", "MoveWindow", "ResizeWindow",
     "SetWindowTitle", "SetWindowOpacity"}

MacUnsupported == {"SetAlwaysOnTop", "SetWindowTitle", "SetWindowOpacity"}

Operations == ResultQueries \cup BoolQueries \cup Mutations

Bool(x) == IF x THEN "true" ELSE "false"

\* A body result: the return code, the desktop after the native calls, the
\* native mutating calls issued, and whether the process was terminated.
Done(rc, ws, log) == [rc |-> rc, wins |-> ws, native |-> log, crash |-> FALSE]

Crash == [rc |-> "none", wins |-> wins, native |-> <<>>, crash |-> TRUE]

(***************************************************************************)
(* Win32.  Every handle-taking operation checks m_initialized, then probes *)
(* the handle with IsWindow; IsWindowVisible asks the platform predicate   *)
(* directly.  The follow-up calls answer for a dead window with zero, so   *)
(* the only follow-up failures are GetWindowRect and OpenProcess.          *)
(***************************************************************************)
\* Faulty variants: a visibility query without the m_initialized check, a
\* Win32 operation without the IsWindow probe.
WindowsIsWindowVisibleNoInit(b, ws, h) ==
    IsLiveWindow(ws, h) /\ ws[h].shown # "hidden"

WindowsBeginNoProbe(b, ws, op, h) ==
    CASE op = "IsWindowVisible" ->
             Bool(b.m_initialized /\ IsLiveWindow(ws, h) /\ ws[h].shown # "hidden")
      [] op = "IsValidWindow" -> Bool(b.m_initialized /\ IsLiveWindow(ws, h))
      [] op = "GetFocusedWindowInfo" /\ h = 0 -> "WindowNotFound"
      [] OTHER -> IF ~b.m_initialized THEN "NotInitialized" ELSE "Pending"

\* A faulty variant whose GetFocusedWindowInfo hands the null sentinel to
\* GetWindowInfo.
WindowsBeginNoSentinel(b, ws, op, h) ==
    CASE op = "IsWindowVisible" ->
             Bool(b.m_initialized /\ IsLiveWindow(ws, h) /\ ws[h].shown # "hidden")
      [] op = "IsValidWindow" -> Bool(b.m_initialized /\ IsLiveWindow(ws, h))
      [] OTHER -> IF ~b.m_initialized THEN "NotInitialized"
                  ELSE IF ~IsLiveWindow(ws, h) THEN "InvalidHandle"
                  ELSE "Pending"

WindowsIsValidWindow(b, ws, h) == b.m_initialized /\ IsLiveWindow(ws, h)

WindowsIsWindowVisible(b, ws, h) ==
    b.m_initialized /\ IsLiveWindow(ws, h) /\ ws[h].shown # "hidden"

WindowsBegin(b, ws, op, h) ==
    CASE op = "IsWindowVisible" -> Bool(WindowsIsWindowVisible(b, ws, h))
      [] op = "IsValidWindow" -> Bool(WindowsIsValidWindow(b, ws, h))
      [] op = "GetFocusedWindowInfo" /\ h = 0 -> "WindowNotFound"
      [] OTHER -> IF ~b.m_initialized THEN "NotInitialized"
                  ELSE IF ~IsLiveWindow(ws, h) THEN "InvalidHandle"
                  ELSE "Pending"

\* The native mutating calls of a mutation, in the order they are issued.
WindowsCalls(ws, op, h) ==
    CASE op = "CloseWindow" -> <<"PostMessage(WM_CLOSE)">>
      [] op = "MinimizeWindow" -> <<"ShowWindow(SW_MINIMIZE)">>
      [] op = "MaximizeWindow" -> <<"ShowWindow(SW_MAXIMIZE)">>
      [] op = "RestoreWindow" -> <<"ShowWindow(SW_RESTORE)">>
      [] op = "ShowWindow" -> <<"ShowWindow(SW_SHOW)">>
      [] op = "HideWindow" -> <<"ShowWindow(SW_HIDE)">>
      [] op = "FocusWindow" ->
             (IF IsLiveWindow(ws, h) /\ ws[h].shown = "iconic"
              THEN <<"ShowWindow(SW_RESTORE)">> ELSE <<>>)
             \o <<"SetForegroundWindow", "SetFocus">>
      [] op = "SetAlwaysOnTop" -> <<"SetWindowPos(TOPMOST)">>
      [] op = "SetWindowRect" -> <<"MoveWindow">>
      [] op = "MoveWindow" -> <<"SetWindowPos(NOSIZE)">>
      [] op = "ResizeWindow" -> <<"SetWindowPos(NOMOVE)">>
      [] op = "SetWindowTitle" -> <<"SetWindowTextW">>
      [] op = "SetWindowOpacity" ->
             <<"SetWindowLongW(WS_EX_LAYERED)", "SetLayeredWindowAttributes">>
      [] OTHER -> <<>>

\* granted: OpenProcess(PROCESS_TERMINATE) is allowed on the owner.  The
\* owner of a dead window reads as pid 0, which OpenProcess refuses.
WindowsBody(ws, op, h, granted) ==
    CASE op \in ResultQueries ->
             Done(IF op = "GetWindowRect" /\ ~IsLiveWindow(ws, h)
                  THEN "OperationFailed" ELSE "Success", ws, <<>>)
      [] op = "ForceCloseWindow" ->
             IF IsLiveWindow(ws, h) /\ granted
             THEN Done("Success", NativeEffect(ws, "TerminateProcess", h),
                       NativeLog(<<"TerminateProcess">>, h))
             ELSE Done("AccessDenied", ws, <<>>)
      [] OTHER ->
             Done("Success", ApplyCalls(ws, WindowsCalls(ws, op, h), h),
                  NativeLog(WindowsCalls(ws, op, h), h))

(***************************************************************************)
(* X11.  IsValidWindow probes with XGetWindowAttributes under an error     *)
(* handler that swallows the error; the handler is removed before it       *)
(* returns.  The follow-up requests that wait for a reply                  *)
(* (XGetWindowProperty, XGetWindowAttributes) run under the handler that   *)
(* was installed before: Xlib's default one, which prints the error and    *)
(* exits the process, unless the application has installed a handler of    *)
(* its own that returns, in which case the request reports failure.  The   *)
(* mutating requests have no reply; the error of such a request on a dead  *)
(* window arrives later and is not modelled.                               *)
(***************************************************************************)
\* A faulty variant that probes the handle before it checks m_initialized.
LinuxBeginProbeFirst(b, ws, op, h) ==
    CASE op = "IsValidWindow" -> Bool(b.m_initialized /\ IsLiveWindow(ws, h))
      [] op = "IsWindowVisible" ->
             IF ~b.m_initialized \/ ~IsLiveWindow(ws, h) THEN "false" ELSE "Pending"
      [] op = "GetFocusedWindowInfo" /\ h = 0 -> "WindowNotFound"
      [] OTHER -> IF ~(b.m_initialized /\ IsLiveWindow(ws, h)) THEN "InvalidHandle"
                  ELSE IF ~b.m_initialized THEN "NotInitialized"
                  ELSE "Pending"

LinuxIsValidWindow(b, ws, h) == b.m_initialized /\ IsLiveWindow(ws, h)

LinuxBegin(b, ws, op, h) ==
    CASE op = "IsValidWindow" -> Bool(LinuxIsValidWindow(b, ws, h))
      [] op = "IsWindowVisible" ->
             IF ~b.m_initialized \/ ~LinuxIsValidWindow(b, ws, h)
             THEN "false" ELSE "Pending"
      [] op = "GetFocusedWindowInfo" /\ h = 0 -> "WindowNotFound"
      [] OTHER -> IF ~b.m_initialized THEN "NotInitialized"
                  ELSE IF ~LinuxIsValidWindow(b, ws, h) THEN "InvalidHandle"
                  ELSE "Pending"

LinuxCalls(op) ==
    CASE op = "CloseWindow" -> <<"XSendEvent(_NET_CLOSE_WINDOW)">>
      [] op = "ForceCloseWindow" -> <<"XKillClient">>
      [] op = "MinimizeWindow" -> <<"XIconifyWindow">>
      [] op = "MaximizeWindow" ->
             <<"XMapWindow", "XSendEvent(_NET_WM_STATE,MAXIMIZED)">>
      [] op = "RestoreWindow" ->
             <<"XMapWindow", "XSendEvent(_NET_WM_STATE,MAXIMIZED)",
               "XSendEvent(_NET_WM_STATE,FULLSCREEN)">>
      [] op = "ShowWindow" -> <<"XMapWindow">>
      [] op = "HideWindow" -> <<"XUnmapWindow">>
      [] op = "FocusWindow" -> <<"XSendEvent(_NET_ACTIVE_WINDOW)">>
      [] op = "SetAlwaysOnTop" -> <<"XSendEvent(_NET_WM_STATE,ABOVE)">>
      [] op = "SetWindowRect" -> <<"XMoveResizeWindow">>
      [] op = "MoveWindow" -> <<"XMoveWindow">>
      [] op = "ResizeWindow" -> <<"XResizeWindow">>
      [] op = "SetWindowTitle" -> <<"XStoreName", "XChangeProperty(_NET_WM_NAME)">>
      [] op = "SetWindowOpacity" -> <<"XChangeProperty(_NET_WM_WINDOW_OPACITY)">>
      [] OTHER -> <<>>

\* handled: the application's own X error handler is installed.
LinuxBody(ws, op, h, handled) ==
    CASE op \in ResultQueries ->
             IF IsLiveWindow(ws, h) THEN Done("Success", ws, <<>>)
             ELSE IF ~handled THEN Crash
             ELSE Done(IF op = "GetWindowRect" THEN "OperationFailed"
                       ELSE "Success", ws, <<>>)
      [] op = "IsWindowVisible" ->
             IF IsLiveWindow(ws, h)
             THEN Done(Bool(ws[h].shown = "normal"), ws, <<>>)
             ELSE IF ~handled THEN Crash
             ELSE Done("false", ws, <<>>)
      [] OTHER ->
             Done("Success", ApplyCalls(ws, LinuxCalls(op), h),
                  NativeLog(LinuxCalls(op), h))

(***************************************************************************)
(* macOS.  Every query is one window-list lookup (GetWindowInfo); a        *)
(* mutation looks the window up, then acts through the accessibility       *)
(* element GetAXWindowForPid returns: the first accessibility window of    *)
(* the owning process, whichever window the handle names.  A window is on  *)
(* screen when it is neither minimized nor hidden.                         *)
(***************************************************************************)
MacOSGetWindowInfo(b, ws, h) ==
    IF ~b.m_initialized THEN "NotInitialized"
    ELSE IF ~IsLiveWindow(ws, h) THEN "InvalidHandle"
    ELSE "Success"

MacOSIsWindowVisible(b, ws, h) ==
    MacOSGetWindowInfo(b, ws, h) = "Success" /\ ws[h].shown = "normal"

MacOSIsValidWindow(b, ws, h) == MacOSGetWindowInfo(b, ws, h) = "Success"

\* A faulty variant whose unsupported mutations check the backend and the
\* handle first, as the other mutations do.
MacOSBeginGuarded(b, ws, op, h) ==
    CASE op = "IsWindowVisible" -> Bool(MacOSIsWindowVisible(b, ws, h))
      [] op = "IsValidWindow" -> Bool(MacOSIsValidWindow(b, ws, h))
      [] op = "GetFocusedWindowInfo" /\ h = 0 -> "WindowNotFound"
      [] op \in ResultQueries -> MacOSGetWindowInfo(b, ws, h)
      [] OTHER -> IF ~b.m_initialized THEN "NotInitialized"
                  ELSE IF MacOSGetWindowInfo(b, ws, h) # "Success"
                       THEN MacOSGetWindowInfo(b, ws, h)
                  ELSE IF op \in MacUnsupported THEN "NotSupported"
                  ELSE "Pending"

MacOSBegin(b, ws, op, h) ==
    CASE op \in MacUnsupported -> "NotSupported"
      [] op = "IsWindowVisible" -> Bool(MacOSIsWindowVisible(b, ws, h))
      [] op = "IsValidWindow" -> Bool(MacOSIsValidWindow(b, ws, h))
      [] op = "GetFocusedWindowInfo" /\ h = 0 -> "WindowNotFound"
      [] op \in ResultQueries -> MacOSGetWindowInfo(b, ws, h)
      [] OTHER -> IF ~b.m_initialized THEN "NotInitialized"
                  ELSE IF MacOSGetWindowInfo(b, ws, h) # "Success"
                       THEN MacOSGetWindowInfo(b, ws, h)
                  ELSE "Pending"

\* The last-error text the three unsupported mutations leave behind.
MacOSUnsupportedError(op) ==
    CASE op = "SetAlwaysOnTop" ->
             "SetAlwaysOnTop not supported for external windows on macOS"
      [] op = "SetWindowTitle" ->
             "SetWindowTitle not supported for external windows on macOS"
      [] OTHER -> "SetWindowOpacity not supported for external windows on macOS"

\* The answers GetAXWindowForPid can give for a process: 0 (nullptr) when
\* the accessibility API refuses or the process has no window, else the
\* window that is first in the process's accessibility window list.
GetAXWindowForPid(ws, pid, trusted) ==
    IF trusted /\ \E w \in Windows : IsLiveWindow(ws, w) /\ PidOf(w) = pid
    THEN {w \in Windows : IsLiveWindow(ws, w) /\ PidOf(w) = pid}
    ELSE {0}

\* A faulty variant in which ShowWindow and HideWindow have an action of
\* their own.
MacOSCallsOwnHide(op) ==
    CASE op = "CloseWindow" -> <<"AXPress(kAXCloseButton)">>
      [] op = "MinimizeWindow" -> <<"AXSet(kAXMinimized,true)">>
      [] op = "HideWindow" -> <<"AXSet(kAXHidden,true)">>
      [] op = "MaximizeWindow" -> <<"AXPress(kAXZoomButton)">>
      [] op = "RestoreWindow" -> <<"AXSet(kAXMinimized,false)">>
      [] op = "ShowWindow" -> <<"AXSet(kAXHidden,false)">>
      [] op = "SetWindowRect" -> <<"AXSet(kAXPosition)", "AXSet(kAXSize)">>
      [] op = "MoveWindow" -> <<"AXSet(kAXPosition)">>
      [] op = "ResizeWindow" -> <<"AXSet(kAXSize)">>
      [] OTHER -> <<>>

MacOSCalls(op) ==
    CASE op = "CloseWindow" -> <<"AXPress(kAXCloseButton)">>
      [] op \in {"MinimizeWindow", "HideWindow"} -> <<"AXSet(kAXMinimized,true)">>
      [] op = "MaximizeWindow" -> <<"AXPress(kAXZoomButton)">>
      [] op \in {"RestoreWindow", "ShowWindow"} -> <<"AXSet(kAXMinimized,false)">>
      [] op = "SetWindowRect" -> <<"AXSet(kAXPosition)", "AXSet(kAXSize)">>
      [] op = "MoveWindow" -> <<"AXSet(kAXPosition)">>
      [] op = "ResizeWindow" -> <<"AXSet(kAXSize)">>
      [] OTHER -> <<>>

\* x is the answer of GetAXWindowForPid for the owner recorded at lookup.
MacOSBody(ws, op, h, x) ==
    CASE op = "ForceCloseWindow" ->
             Done("Success", KillPid(ws, PidOf(h)),
                  <<<<"kill(SIGKILL)", PidOf(h)>>>>)
      [] op = "FocusWindow" ->
             Done("Success", ws,
                  (IF \E w \in Windows : IsLiveWindow(ws, w) /\ PidOf(w) = PidOf(h)
                   THEN <<<<"activateWithOptions", PidOf(h)>>>> ELSE <<>>)
                  \o (IF x # 0 THEN <<<<"AXRaise", x>>>> ELSE <<>>))
      [] OTHER ->
             IF x = 0 THEN Done("AccessDenied", ws, <<>>)
             ELSE Done("Success", ApplyCalls(ws, MacOSCalls(op), x),
                       NativeLog(MacOSCalls(op), x))

(***************************************************************************)
(* The stub backend of unsupported platforms.                              *)
(***************************************************************************)
StubBegin(op) == IF op \in BoolQueries THEN "false" ELSE "NotSupported"

(***************************************************************************)
(* GetFocusedWindow: the handles the platform can answer with.  0 is the   *)
(* null sentinel.  Win32 answers with the foreground window, X11 with the  *)
(* root window's _NET_ACTIVE_WINDOW property (which may name a window that *)
(* is already gone), macOS with the first titled on-screen window of the   *)
(* frontmost application.                                                  *)
(***************************************************************************)
GetFocusedWindow(p, b, ws) ==
    CASE p = "Stub" -> {0}
      [] ~b.m_initialized -> {0}
      [] p = "Win32" -> {0} \cup {w \in Windows : IsLiveWindow(ws, w)}
      [] p = "X11" -> Handles
      [] OTHER -> {0} \cup {w \in Windows : /\ IsLiveWindow(ws, w)
                                            /\ ws[w].shown = "normal"
                                            /\ ws[w].title # <<>>}

Begin(p, b, ws, op, h) ==
    CASE p = "Win32" -> WindowsBegin(b, ws, op, h)
      [] p = "X11" -> LinuxBegin(b, ws, op, h)
      [] p = "macOS" -> MacOSBegin(b, ws, op, h)
      [] OTHER -> StubBegin(op)

Body(p, ws, op, h, x, granted) ==
    CASE p = "Win32" -> WindowsBody(ws, op, h, granted)
      [] p = "X11" -> LinuxBody(ws, op, h, granted)
      [] OTHER -> MacOSBody(ws, op, h, x)

(***************************************************************************)
(* A public operation on the facade, forwarded to the backend it owns.     *)
(* BeginCall runs the operation up to and including its validity probe and *)
(* completes it when it returns early; FinishCall runs the follow-up       *)
(* native calls.  Between the two the desktop may change.                  *)
(* For GetFocusedWindowInfo, h is the answer of GetFocusedWindow.          *)
(***************************************************************************)
BeginCall(f, op, h) ==
    /\ Running /\ call.pc = "idle" /\ scan.pc = "idle"
    /\ facades[f].st = "live" /\ facades[f].m_impl # 0
    /\ LET bid == facades[f].m_impl
           b == impls[bid]
           r == Begin(platform, b, wins, op, h)
       IN /\ op = "GetFocusedWindowInfo" => h \in GetFocusedWindow(platform, b, wins)
          /\ call' = [pc |-> IF r = "Pending" THEN "pending" ELSE "done",
                      op |-> op, h |-> h,
                      rc |-> IF r = "Pending" THEN "none" ELSE r,
                      preInit |-> IsInitialized(platform, b),
                      preLive |-> IsLiveWindow(wins, h),
                      native |-> <<>>, changed |-> FALSE]
          /\ impls' = IF platform = "macOS" /\ op \in MacUnsupported
                      THEN [impls EXCEPT
                                ![bid] = SetLastError(b, MacOSUnsupportedError(op))]
                      ELSE impls
    /\ UNCHANGED <<snap, xerr, zorder, scan, platform, facades, conns, wins, proc, ev>>

\* x: the accessibility window macOS hands out; granted: the platform
\* allows the privileged step (OpenProcess, the accessibility API) or, on
\* X11, the application handles X errors itself.
FinishCall(x, granted) ==
    /\ Running /\ call.pc = "pending"
    /\ IF platform = "macOS"
       THEN x \in GetAXWindowForPid(wins, PidOf(call.h), granted)
       ELSE /\ x = 0
            /\ \/ granted
               \/ platform = "Win32" /\ call.op = "ForceCloseWindow"
               \/ platform = "X11" /\ ~IsLiveWindow(wins, call.h)
    /\ LET r == Body(platform, wins, call.op, call.h, x, granted)
       IN /\ proc' = IF r.crash THEN "crashed" ELSE proc
          /\ wins' = r.wins
          /\ call' = IF r.crash THEN call
                     ELSE [call EXCEPT !.pc = "done", !.rc = r.rc,
                                       !.native = r.native,
                                       !.changed = (r.wins # wins)]
    /\ UNCHANGED <<snap, xerr, zorder, scan, platform, facades, impls, conns, ev>>

\* The caller has taken the result.
Return ==
    /\ Running /\ call.pc = "done"
    /\ call' = IdleCall
    /\ UNCHANGED <<snap, xerr, zorder, scan, platform, facades, impls, conns, wins, proc, ev>>

\* Another process destroys its window.
WindowDies(h) ==
    /\ Running /\ call.pc \in {"idle", "pending"}
    /\ IsLiveWindow(wins, h)
    /\ wins' = [wins EXCEPT ![h] = DeadWin]
    /\ UNCHANGED <<snap, xerr, zorder, scan, platform, facades, impls, conns, call, proc, ev>>

Init ==
    /\ platform \in Platforms
    /\ facades = [f \in FacadeIds |->
                     IF \A g \in FacadeIds : f <= g
                     THEN [st |-> "live", m_impl |-> f] ELSE NoFacade]
    /\ impls = [b \in BackendIds |->
                   IF \A g \in BackendIds : b <= g THEN NewImpl ELSE NoImpl]
    /\ conns = [c \in ConnIds |-> NoConn]
    /\ wins \in [Handles -> LiveWin \cup {DeadWin}]
    /\ ~wins[0].alive
    /\ call = IdleCall
    /\ proc = "running"
    /\ ev = NoEvent
    /\ zorder = Ascending
    /\ scan = NoScan
    /\ snap = NoSnap
    /\ xerr = NoXerr

Next ==
    \/ \E f \in FacadeIds, env \in BOOLEAN : FacadeInitialize(f, env)
    \/ \E f \in FacadeIds : FacadeShutdown(f)
    \/ \E f \in FacadeIds, op \in Operations, h \in Handles : BeginCall(f, op, h)
    \/ \E x \in Handles, granted \in BOOLEAN : FinishCall(x, granted)
    \/ Return
    \/ \E h \in Windows : WindowDies(h)

Spec == Init /\ [][Next]_vars

(***************************************************************************)
(* Text.  A string is a sequence of characters; the alphabet has two       *)
(* letters in both cases.                                                  *)
(***************************************************************************)
Chars == {"A", "a", "B", "b"}

\* ::tolower on one character
ToLowerChar(c) ==
    CASE c = "A" -> "a"
      [] c = "B" -> "b"
      [] OTHER -> c

\* std::transform(s.begin(), s.end(), s.begin(), ::tolower)
ToLower(s) == [i \in 1 .. Len(s) |-> ToLowerChar(s[i])]

\* std::string::npos
Npos == 0 - 1

\* std::string::find: the first position (from 0) where p occurs in s
Find(s, p) ==
    LET hits == {i \in 0 .. Len(s) - Len(p) : SubSeq(s, i + 1, i + Len(p)) = p}
    IN IF hits = {} THEN Npos
       ELSE CHOOSE i \in hits : \A j \in hits : i <= j

ToLowerCompare(str, pattern) == Find(ToLower(str), ToLower(pattern)) # Npos

\* The comparison of FindWindowsByTitle
TitleMatches(title, titlePattern, caseSensitive) ==
    IF caseSensitive THEN Find(title, titlePattern) # Npos
    ELSE ToLowerCompare(title, titlePattern)

(***************************************************************************)
(* The enumeration operations.  zo is the order in which the platform      *)
(* lists windows.  A result is the sequence of the handles of the          *)
(* WindowInfo values returned, or handed to the visitor.                   *)
(***************************************************************************)
\* The visitor of EnumerateWindows: its call number stop returns false,
\* every other call returns true (stop = 0: it always returns true).
Visitor(n, stop) == n # stop

\* The loop that hands the windows to the visitor; n counts its calls.
RECURSIVE Walk(_, _, _)
Walk(infos, n, stop) ==
    IF infos = <<>> THEN <<>>
    ELSE IF ~Visitor(n, stop) THEN <<Head(infos)>>
    ELSE <<Head(infos)>> \o Walk(Tail(infos), n + 1, stop)

\* An enumeration result: the handles returned, the handles visited, and
\* whether the process was terminated.
Scanned(result, visits) == [result |-> result, visits |-> visits, crash |-> FALSE]

ScanCrash == [result |-> <<>>, visits |-> <<>>, crash |-> TRUE]

(***************************************************************************)
(* Win32.  ::EnumWindows hands every top-level window to EnumWindowsProc,  *)
(* which skips the windows that are not visible, that have an owner or     *)
(* that have no title, and looks up the info of the others.  (The          *)
(* visibility test is written IsWindowVisible(hwnd) inside the static      *)
(* callback; it is modelled as the platform predicate ::IsWindowVisible.)  *)
(***************************************************************************)
EnumWindows(ws, zo) ==
    LET TopLevel(h) == IsLiveWindow(ws, h)
    IN SelectSeq(zo, TopLevel)

\* A faulty variant of the callback's filter that keeps the windows without
\* a title.
EnumWindowsProcKeepUntitled(b, ws, hwnd) ==
    /\ ws[hwnd].shown # "hidden"
    /\ ~ws[hwnd].owned
    /\ WindowsBegin(b, ws, "GetWindowInfo", hwnd) = "Pending"

\* TRUE when the callback takes the window: it passes the three filters and
\* GetWindowInfo succeeds on it.
EnumWindowsProc(b, ws, hwnd) ==
    /\ ws[hwnd].shown # "hidden"
    /\ ~ws[hwnd].owned
    /\ Len(ws[hwnd].title) # 0
    /\ WindowsBegin(b, ws, "GetWindowInfo", hwnd) = "Pending"
    /\ WindowsBody(ws, "GetWindowInfo", hwnd, TRUE).rc = "Success"

WindowsGetAllWindows(b, ws, zo) ==
    LET Taken(h) == EnumWindowsProc(b, ws, h)
    IN IF ~b.m_initialized THEN <<>>
       ELSE SelectSeq(EnumWindows(ws, zo), Taken)

WindowsEnumerateWindows(b, ws, zo, stop) ==
    LET Taken(h) == EnumWindowsProc(b, ws, h)
    IN IF ~b.m_initialized THEN <<>>
       ELSE Walk(SelectSeq(EnumWindows(ws, zo), Taken), 1, stop)

WindowsFindWindowsByTitle(b, ws, zo, titlePattern, caseSensitive) ==
    LET Matches(h) == TitleMatches(ws[h].title, titlePattern, caseSensitive)
    IN IF ~b.m_initialized THEN <<>>
       ELSE SelectSeq(WindowsGetAllWindows(b, ws, zo), Matches)

WindowsFindWindowsByProcess(b, ws, zo, processName) ==
    LET Matches(h) == ToLowerCompare(ws[h].pname, processName)
    IN IF ~b.m_initialized THEN <<>>
       ELSE SelectSeq(WindowsGetAllWindows(b, ws, zo), Matches)

(***************************************************************************)
(* X11.  The windows are those of the root window's _NET_CLIENT_LIST,      *)
(* which the window manager maintains and which may still name a window    *)
(* that is gone.  GetAllWindows and EnumerateWindows look each one up with *)
(* GetWindowInfo, which probes it first.  FindWindowsByTitle and           *)
(* FindWindowsByProcess read the title or the pid of each one with         *)
(* XGetWindowProperty before any probe: on a window that is gone the       *)
(* request fails under the installed error handler, which is Xlib's        *)
(* default one (it exits) unless the application has installed its own, in *)
(* which case the text read is empty.                                      *)
(***************************************************************************)
GetClientList(ws, zo) ==
    LET Listed(h) == ws[h].listed
    IN SelectSeq(zo, Listed)

\* info.ok() for GetWindowInfo(w) on a desktop that does not change
LinuxInfoOk(b, ws, w) ==
    /\ LinuxBegin(b, ws, "GetWindowInfo", w) = "Pending"
    /\ LinuxBody(ws, "GetWindowInfo", w, FALSE).rc = "Success"

\* Faulty variants that do not test info.ok().
LinuxGetAllWindowsNoCheck(b, ws, zo) ==
    IF ~b.m_initialized THEN <<>> ELSE GetClientList(ws, zo)

LinuxEnumerateWindowsNoCheck(b, ws, zo, stop) ==
    IF ~b.m_initialized THEN <<>> ELSE Walk(GetClientList(ws, zo), 1, stop)

LinuxGetAllWindows(b, ws, zo) ==
    LET Ok(w) == LinuxInfoOk(b, ws, w)
    IN IF ~b.m_initialized THEN <<>>
       ELSE SelectSeq(GetClientList(ws, zo), Ok)

LinuxEnumerateWindows(b, ws, zo, stop) ==
    LET Ok(w) == LinuxInfoOk(b, ws, w)
    IN IF ~b.m_initialized THEN <<>>
       ELSE Walk(SelectSeq(GetClientList(ws, zo), Ok), 1, stop)

\* The client list names a window that is gone.
StaleClient(ws, zo) ==
    \E i \in 1 .. Len(GetClientList(ws, zo)) :
        ~IsLiveWindow(ws, GetClientList(ws, zo)[i])

\* handled: the application's own X error handler is installed.
LinuxFindWindowsByTitle(b, ws, zo, titlePattern, caseSensitive, handled) ==
    LET title(w) == IF IsLiveWindow(ws, w) THEN ws[w].title ELSE <<>>
        Matches(w) == /\ TitleMatches(title(w), titlePattern, caseSensitive)
                      /\ LinuxInfoOk(b, ws, w)
    IN IF ~b.m_initialized THEN Scanned(<<>>, <<>>)
       ELSE IF StaleClient(ws, zo) /\ ~handled THEN ScanCrash
       ELSE Scanned(SelectSeq(GetClientList(ws, zo), Matches), <<>>)

LinuxFindWindowsByProcess(b, ws, zo, processName, handled) ==
    LET procName(w) == IF IsLiveWindow(ws, w) THEN ws[w].pname ELSE <<>>
        Matches(w) == /\ ToLowerCompare(procName(w), processName)
                      /\ LinuxInfoOk(b, ws, w)
    IN IF ~b.m_initialized THEN Scanned(<<>>, <<>>)
       ELSE IF StaleClient(ws, zo) /\ ~handled THEN ScanCrash
       ELSE Scanned(SelectSeq(GetClientList(ws, zo), Matches), <<>>)

(***************************************************************************)
(* macOS.  GetAllWindows reads the on-screen window list and keeps the     *)
(* windows with a title; the other three operations go through it.         *)
(***************************************************************************)
MacOSGetAllWindows(b, ws, zo) ==
    LET Kept(h) == /\ IsLiveWindow(ws, h) /\ ws[h].shown = "normal"
                   /\ ws[h].title # <<>>
    IN IF ~b.m_initialized THEN <<>>
       ELSE SelectSeq(zo, Kept)

\* A faulty variant that ignores what the visitor returns.
MacOSEnumerateWindowsNoBreak(b, ws, zo, stop) ==
    IF ~b.m_initialized THEN <<>> ELSE MacOSGetAllWindows(b, ws, zo)

MacOSEnumerateWindows(b, ws, zo, stop) ==
    IF ~b.m_initialized THEN <<>>
    ELSE Walk(MacOSGetAllWindows(b, ws, zo), 1, stop)

MacOSFindWindowsByTitle(b, ws, zo, titlePattern, caseSensitive) ==
    LET Matches(h) == TitleMatches(ws[h].title, titlePattern, caseSensitive)
    IN IF ~b.m_initialized THEN <<>>
       ELSE SelectSeq(MacOSGetAllWindows(b, ws, zo), Matches)

MacOSFindWindowsByProcess(b, ws, zo, processName) ==
    LET Matches(h) == ToLowerCompare(ws[h].pname, processName)
    IN IF ~b.m_initialized THEN <<>>
       ELSE SelectSeq(MacOSGetAllWindows(b, ws, zo), Matches)

\* The stub's four enumeration operations return nothing.
StubEnumeration == <<>>

GetAllWindows(p, b, ws, zo) ==
    CASE p = "Win32" -> WindowsGetAllWindows(b, ws, zo)
      [] p = "X11" -> LinuxGetAllWindows(b, ws, zo)
      [] p = "macOS" -> MacOSGetAllWindows(b, ws, zo)
      [] OTHER -> StubEnumeration

EnumerateWindows(p, b, ws, zo, stop) ==
    CASE p = "Win32" -> WindowsEnumerateWindows(b, ws, zo, stop)
      [] p = "X11" -> LinuxEnumerateWindows(b, ws, zo, stop)
      [] p = "macOS" -> MacOSEnumerateWindows(b, ws, zo, stop)
      [] OTHER -> StubEnumeration

FindWindowsByTitle(p, b, ws, zo, titlePattern, caseSensitive, handled) ==
    CASE p = "Win32" ->
             Scanned(WindowsFindWindowsByTitle(b, ws, zo, titlePattern,
                                               caseSensitive), <<>>)
      [] p = "X11" ->
             LinuxFindWindowsByTitle(b, ws, zo, titlePattern, caseSensitive, handled)
      [] p = "macOS" ->
             Scanned(MacOSFindWindowsByTitle(b, ws, zo, titlePattern,
                                             caseSensitive), <<>>)
      [] OTHER -> Scanned(StubEnumeration, <<>>)

FindWindowsByProcess(p, b, ws, zo, processName, handled) ==
    CASE p = "Win32" ->
             Scanned(WindowsFindWindowsByProcess(b, ws, zo, processName), <<>>)
      [] p = "X11" -> LinuxFindWindowsByProcess(b, ws, zo, processName, handled)
      [] p = "macOS" ->
             Scanned(MacOSFindWindowsByProcess(b, ws, zo, processName), <<>>)
      [] OTHER -> Scanned(StubEnumeration, <<>>)

(***************************************************************************)
(* SetWindowOpacity.  The float argument is counted in quarters: 4 is 1.0, *)
(* -4 is -1.0, 8 is 2.0; products of quarters with 255 and with 2^32 are   *)
(* exact in float.  A 32-bit value is written as its two 16-bit halves.    *)
(***************************************************************************)
Min(a, b) == IF a < b THEN a ELSE b

Max(a, b) == IF a > b THEN a ELSE b

\* std::max(0.0f, std::min(1.0f, opacity))
ClampOpacity(opacity) == Max(0, Min(4, opacity))

\* Faulty variants without the clamp.
WindowsAlphaNoClamp(opacity) == ((opacity * 255) \div 4) % 2^8

LinuxOpacityProductNoClamp(opacity) == [hi |-> opacity * 2^14, lo |-> 0]

\* Win32: static_cast<BYTE>(opacity * 255) of the clamped opacity
WindowsAlpha(opacity) == ((ClampOpacity(opacity) * 255) \div 4) % 2^8

\* X11: opacity * 0xFFFFFFFF of the clamped opacity, computed in float.  The
\* constant 0xFFFFFFFF has no float representation and is rounded to 2^32,
\* so the product is opacity * 2^32: in quarters, (opacity * 2^14) * 2^16.
\* The high half is 2^16 for opacity 1.0: the product is 2^32.
LinuxOpacityProduct(opacity) == [hi |-> ClampOpacity(opacity) * 2^14, lo |-> 0]

\* static_cast<unsigned long>(v) for an unsigned long of the given width:
\* the value itself when it fits; else the conversion is undefined, and the
\* outcomes modelled are zero and the largest value.
CastUnsignedLong(v, bits) ==
    IF bits = 64 \/ (0 <= v.hi /\ v.hi < 2^16) THEN {v}
    ELSE {[hi |-> 0, lo |-> 0], [hi |-> 2^16 - 1, lo |-> 2^16 - 1]}

\* XChangeProperty with format 32 sends the low 32 bits of each long.
XChangeProperty32(v) == [hi |-> v.hi % 2^16, lo |-> v.lo]

\* The values SetWindowOpacity can write to _NET_WM_WINDOW_OPACITY.
LinuxOpacityValues(opacity, bits) ==
    {XChangeProperty32(v) : v \in CastUnsignedLong(LinuxOpacityProduct(opacity), bits)}

\* The native values a SetWindowOpacity call that got past its checks can
\* hand to the platform: <<alpha>> on Win32, <<hi, lo>> on X11.
OpacityNatives(p, opacity, bits) ==
    IF p = "Win32" THEN {<<WindowsAlpha(opacity)>>}
    ELSE {<<v.hi, v.lo>> : v \in LinuxOpacityValues(opacity, bits)}

(***************************************************************************)
(* The enumeration calls and SetWindowOpacity with its argument, on the    *)
(* facade, forwarded to the backend it owns.  Each call runs to its return *)
(* on the desktop as it is; the caller makes one call at a time.           *)
(***************************************************************************)
OwnsBackend(f) ==
    /\ Running /\ call.pc = "idle" /\ scan.pc = "idle"
    /\ facades[f].st = "live" /\ facades[f].m_impl # 0

\* GetAllWindows leaves a last-error text on a backend that is not
\* initialized (the stub leaves none).
GetAllWindowsCall(f) ==
    /\ OwnsBackend(f)
    /\ LET bid == facades[f].m_impl
           b == impls[bid]
       IN /\ scan' = [NoScan EXCEPT !.pc = "done", !.op = "GetAllWindows",
                                    !.preInit = IsInitialized(platform, b),
                                    !.result = GetAllWindows(platform, b, wins, zorder)]
          /\ impls' = IF platform # "Stub" /\ ~b.m_initialized
                      THEN [impls EXCEPT
                                ![bid] = SetLastError(b, "WindowManager not initialized")]
                      ELSE impls
    /\ UNCHANGED <<snap, xerr, platform, facades, conns, wins, call, proc, ev, zorder>>

EnumerateWindowsCall(f, stop) ==
    /\ OwnsBackend(f)
    /\ LET b == impls[facades[f].m_impl]
       IN scan' = [NoScan EXCEPT !.pc = "done", !.op = "EnumerateWindows",
                                 !.stop = stop,
                                 !.preInit = IsInitialized(platform, b),
                                 !.visits = EnumerateWindows(platform, b, wins,
                                                             zorder, stop)]
    /\ UNCHANGED <<snap, xerr, platform, facades, impls, conns, wins, call, proc, ev, zorder>>

FindWindowsByTitleCall(f, titlePattern, caseSensitive, handled) ==
    /\ OwnsBackend(f)
    /\ LET b == impls[facades[f].m_impl]
           r == FindWindowsByTitle(platform, b, wins, zorder, titlePattern,
                                   caseSensitive, handled)
       IN /\ proc' = IF r.crash THEN "crashed" ELSE proc
          /\ scan' = [NoScan EXCEPT !.pc = IF r.crash THEN "crashed" ELSE "done",
                                    !.op = "FindWindowsByTitle",
                                    !.pattern = titlePattern, !.cs = caseSensitive,
                                    !.preInit = IsInitialized(platform, b),
                                    !.result = r.result]
    /\ UNCHANGED <<snap, xerr, platform, facades, impls, conns, wins, call, ev, zorder>>

FindWindowsByProcessCall(f, processName, handled) ==
    /\ OwnsBackend(f)
    /\ LET b == impls[facades[f].m_impl]
           r == FindWindowsByProcess(platform, b, wins, zorder, processName, handled)
       IN /\ proc' = IF r.crash THEN "crashed" ELSE proc
          /\ scan' = [NoScan EXCEPT !.pc = IF r.crash THEN "crashed" ELSE "done",
                                    !.op = "FindWindowsByProcess",
                                    !.pattern = processName,
                                    !.preInit = IsInitialized(platform, b),
                                    !.result = r.result]
    /\ UNCHANGED <<snap, xerr, platform, facades, impls, conns, wins, call, ev, zorder>>

\* The caller takes element i of what GetAllWindows returned and calls
\* IsValidWindow and GetWindowInfo on its handle.
CheckHandle(f, i) ==
    /\ Running /\ call.pc = "idle"
    /\ facades[f].st = "live" /\ facades[f].m_impl # 0
    /\ scan.pc = "done" /\ scan.op = "GetAllWindows" /\ scan.i = 0
    /\ i \in 1 .. Len(scan.result)
    /\ LET b == impls[facades[f].m_impl]
           h == scan.result[i]
           v == Begin(platform, b, wins, "IsValidWindow", h)
           g == Begin(platform, b, wins, "GetWindowInfo", h)
           r == Body(platform, wins, "GetWindowInfo", h, 0, FALSE)
           rc == IF g = "Pending" THEN r.rc ELSE g
       IN /\ proc' = IF g = "Pending" /\ r.crash THEN "crashed" ELSE proc
          /\ scan' = [scan EXCEPT !.i = i, !.valid = v,
                                  !.info = [rc |-> rc,
                                            handle |-> IF rc = "Success" THEN h ELSE 0]]
    /\ UNCHANGED <<snap, xerr, platform, facades, impls, conns, wins, call, ev, zorder>>

\* bits: the width of unsigned long in the build (X11).
SetWindowOpacityCall(f, h, opacity, bits) ==
    /\ OwnsBackend(f)
    /\ bits = IF platform = "X11" THEN bits ELSE 32
    /\ LET bid == facades[f].m_impl
           b == impls[bid]
           r == Begin(platform, b, wins, "SetWindowOpacity", h)
       IN /\ \E v \in (IF r = "Pending" THEN OpacityNatives(platform, opacity, bits)
                       ELSE {<<>>}) :
                 scan' = [NoScan EXCEPT !.pc = "done", !.op = "SetWindowOpacity",
                                        !.h = h, !.opacity = opacity, !.bits = bits,
                                        !.preInit = IsInitialized(platform, b),
                                        !.rc = IF r = "Pending" THEN "Success" ELSE r,
                                        !.native = v]
          /\ impls' = IF platform = "macOS"
                      THEN [impls EXCEPT
                                ![bid] = SetLastError(b, MacOSUnsupportedError(
                                                             "SetWindowOpacity"))]
                      ELSE impls
    /\ UNCHANGED <<snap, xerr, platform, facades, conns, wins, call, proc, ev, zorder>>

\* The caller has taken the result.
ScanReturn ==
    /\ Running /\ scan.pc = "done"
    /\ scan' = NoScan
    /\ UNCHANGED <<snap, xerr, platform, facades, impls, conns, wins, call, proc, ev, zorder>>

(***************************************************************************)
(* SpecEnum: the enumeration calls on a desktop that does not change.      *)
(* A window of the desktop differs from BaseWin in at most one attribute;  *)
(* on Win32 it may have an owner, on X11 the client list may name a window *)
(* that is gone.  The backend is as constructed or initialized.            *)
(***************************************************************************)
BaseWin ==
    [alive |-> TRUE, title |-> <<"A", "b">>, shown |-> "normal", owned |-> FALSE,
     pname |-> <<"A", "b">>, listed |-> TRUE, flags |-> {}]

StaleWin == [DeadWin EXCEPT !.listed = TRUE]

EnumWin(p) ==
    {BaseWin, [BaseWin EXCEPT !.title = <<"a">>], [BaseWin EXCEPT !.title = <<>>],
     [BaseWin EXCEPT !.pname = <<>>], [BaseWin EXCEPT !.shown = "hidden"], DeadWin}
    \cup (IF p = "Win32" THEN {[BaseWin EXCEPT !.owned = TRUE]} ELSE {})
    \cup (IF p = "X11" THEN {StaleWin} ELSE {})

Descending == [i \in 1 .. MaxHandle |-> MaxHandle + 1 - i]

Patterns == {<<>>, <<"a">>, <<"A">>, <<"a", "b">>}

Opacities == {0 - 4, 0, 2, 4, 8}

InitEnum ==
    /\ platform \in Platforms
    /\ facades = [f \in FacadeIds |->
                     IF \A g \in FacadeIds : f <= g
                     THEN [st |-> "live", m_impl |-> f] ELSE NoFacade]
    /\ \E initialized \in BOOLEAN :
           LET r == IF initialized THEN BackendInitialize(platform, NewImpl, TRUE, 1)
                    ELSE [impl |-> NewImpl, ret |-> FALSE, acquired |-> 0]
           IN /\ impls = [b \in BackendIds |->
                             IF \A g \in BackendIds : b <= g THEN r.impl ELSE NoImpl]
              /\ conns = XOpenDisplay([c \in ConnIds |-> NoConn], r.acquired, 1)
    /\ wins \in [Handles -> EnumWin(platform)]
    /\ wins[0] = DeadWin
    /\ call = IdleCall
    /\ proc = "running"
    /\ ev = NoEvent
    /\ zorder \in {Ascending, Descending}
    /\ scan = NoScan
    /\ snap = NoSnap
    /\ xerr = NoXerr

NextEnum ==
    \/ \E f \in FacadeIds : GetAllWindowsCall(f)
    \/ \E f \in FacadeIds, stop \in 0 .. MaxHandle : EnumerateWindowsCall(f, stop)
    \/ \E f \in FacadeIds, titlePattern \in Patterns, caseSensitive, handled \in BOOLEAN :
           FindWindowsByTitleCall(f, titlePattern, caseSensitive, handled)
    \/ \E f \in FacadeIds, processName \in Patterns, handled \in BOOLEAN :
           FindWindowsByProcessCall(f, processName, handled)
    \/ \E f \in FacadeIds, i \in Windows : CheckHandle(f, i)
    \/ \E f \in FacadeIds, h \in Handles, opacity \in Opacities, bits \in {32, 64} :
           SetWindowOpacityCall(f, h, opacity, bits)
    \/ ScanReturn

SpecEnum == InitEnum /\ [][NextEnum]_vars

(***************************************************************************)
(* SpecStub: the build for an unsupported platform.  Every call of the     *)
(* stub returns at once, so no call has follow-up native calls.            *)
(***************************************************************************)
InitStub ==
    /\ platform = "Stub"
    /\ facades = [f \in FacadeIds |->
                     IF \A g \in FacadeIds : f <= g
                     THEN [st |-> "live", m_impl |-> f] ELSE NoFacade]
    /\ impls = [b \in BackendIds |->
                   IF \A g \in BackendIds : b <= g THEN NewImpl ELSE NoImpl]
    /\ conns = [c \in ConnIds |-> NoConn]
    /\ wins \in [Handles -> LiveWin \cup {DeadWin}]
    /\ ~wins[0].alive
    /\ call = IdleCall
    /\ proc = "running"
    /\ ev = NoEvent
    /\ zorder \in {Ascending, Descending}
    /\ scan = NoScan
    /\ snap = NoSnap
    /\ xerr = NoXerr

NextStub ==
    \/ \E f \in FacadeIds, env \in BOOLEAN : FacadeInitialize(f, env)
    \/ \E f \in FacadeIds : FacadeShutdown(f)
    \/ \E f \in FacadeIds, op \in Operations, h \in Handles : BeginCall(f, op, h)
    \/ Return
    \/ \E h \in Windows : WindowDies(h)
    \/ \E f \in FacadeIds : GetAllWindowsCall(f)
    \/ \E f \in FacadeIds, stop \in 0 .. MaxHandle : EnumerateWindowsCall(f, stop)
    \/ \E f \in FacadeIds, titlePattern \in Patterns, caseSensitive, handled \in BOOLEAN :
           FindWindowsByTitleCall(f, titlePattern, caseSensitive, handled)
    \/ \E f \in FacadeIds, processName \in Patterns, handled \in BOOLEAN :
           FindWindowsByProcessCall(f, processName, handled)
    \/ ScanReturn

SpecStub == InitStub /\ [][NextStub]_vars

(***************************************************************************)
(* The state of a window as GetWindowInfo and GetWindowState assemble it.  *)
(* A state is the set of the bits that are set; Normal is the empty set.   *)
(* The platform's answers about a window that no longer exists are         *)
(* negative.                                                               *)
(***************************************************************************)
StateQueries == {"GetWindowInfo", "GetWindowState"}

\* Win32: ::IsWindowVisible, IsIconic, IsZoomed, WS_EX_TOPMOST
NativeIsWindowVisible(ws, h) == IsLiveWindow(ws, h) /\ ws[h].shown # "hidden"

IsIconic(ws, h) == IsLiveWindow(ws, h) /\ ws[h].shown = "iconic"

IsZoomed(ws, h) == IsLiveWindow(ws, h) /\ "maximized" \in ws[h].flags

IsTopmost(ws, h) == IsLiveWindow(ws, h) /\ "above" \in ws[h].flags

\* The bits both Win32 queries set; hidden is the negated visibility each
\* of them uses, focused the answer of GetForegroundWindow.
WindowsStateBits(ws, h, hidden, focused) ==
    (IF IsIconic(ws, h) THEN {"Minimized"} ELSE {})
    \cup (IF IsZoomed(ws, h) THEN {"Maximized"} ELSE {})
    \cup (IF hidden THEN {"Hidden"} ELSE {})
    \cup (IF IsTopmost(ws, h) THEN {"AlwaysOnTop"} ELSE {})
    \cup (IF focused = h THEN {"Focused"} ELSE {})

\* A faulty variant of GetWindowInfo's state that asks the platform for the
\* visibility a second time.
WindowsInfoStateSecondQuery(ws, h, isVisible, focused) ==
    WindowsStateBits(ws, h, ~NativeIsWindowVisible(ws, h), focused)

\* GetWindowInfo tests the isVisible field it has stored
WindowsInfoState(ws, h, isVisible, focused) ==
    WindowsStateBits(ws, h, ~isVisible, focused)

\* GetWindowState asks ::IsWindowVisible itself
WindowsGetWindowState(ws, h, focused) ==
    WindowsStateBits(ws, h, ~NativeIsWindowVisible(ws, h), focused)

\* X11: attrs.map_state == IsViewable
IsViewable(ws, h) == IsLiveWindow(ws, h) /\ ws[h].shown = "normal"

\* X11: the atom is in the window's _NET_WM_STATE property.  The flag
\* "maximized" stands for the two atoms MAXIMIZED_VERT and MAXIMIZED_HORZ.
HasWmState(ws, h, atom) == IsLiveWindow(ws, h) /\ atom \in ws[h].flags

\* The bits both X11 queries set; focused is the answer of GetFocusedWindow.
LinuxStateBits(ws, h, focused) ==
    (IF HasWmState(ws, h, "hidden") THEN {"Minimized"} ELSE {})
    \cup (IF HasWmState(ws, h, "maximized") THEN {"Maximized"} ELSE {})
    \cup (IF HasWmState(ws, h, "fullscreen") THEN {"Fullscreen"} ELSE {})
    \cup (IF HasWmState(ws, h, "above") THEN {"AlwaysOnTop"} ELSE {})
    \cup (IF focused = h THEN {"Focused"} ELSE {})

\* A faulty variant of the macOS value that reports a minimized window.
MacOSInfoValueMinimized(ws, h) ==
    [isVisible |-> ws[h].shown = "normal",
     state |-> CASE ws[h].shown = "iconic" -> {"Minimized", "Hidden"}
                 [] ws[h].shown = "hidden" -> {"Hidden"}
                 [] OTHER -> {}]

\* macOS: isVisible is the window-list entry's on-screen flag, and the
\* state is Normal, with Hidden when isVisible is false.
MacOSInfoValue(ws, h) ==
    LET isVisible == ws[h].shown = "normal"
    IN [isVisible |-> isVisible,
        state |-> IF ~isVisible THEN {"Hidden"} ELSE {}]

(***************************************************************************)
(* A state query on the facade, in the steps in which its value is         *)
(* assembled: the checks and the validity probe (StateBegin), the read of  *)
(* the visibility into isVisible (GetWindowInfo on Win32 and X11), the     *)
(* reads of the state bits.  macOS takes the whole value from one          *)
(* window-list entry.  Between the steps the windows may change.           *)
(***************************************************************************)
StateBegin(f, op, h) ==
    /\ Running /\ call.pc = "idle" /\ scan.pc = "idle" /\ snap.pc = "idle"
    /\ facades[f].st = "live" /\ facades[f].m_impl # 0
    /\ LET b == impls[facades[f].m_impl]
           r == Begin(platform, b, wins, op, h)
           started == [NoSnap EXCEPT !.op = op, !.h = h,
                                     !.preInit = IsInitialized(platform, b)]
       IN snap' = CASE r = "Pending" -> [started EXCEPT !.pc = "probed"]
                    [] r = "Success" ->
                           [started EXCEPT
                                !.pc = "done", !.rc = r,
                                !.isVisible = (op = "GetWindowInfo"
                                               /\ MacOSInfoValue(wins, h).isVisible),
                                !.state = MacOSInfoValue(wins, h).state]
                    [] OTHER -> [started EXCEPT !.pc = "done", !.rc = r]
    /\ UNCHANGED <<platform, facades, impls, conns, wins, call, proc, ev, zorder,
                   scan, xerr>>

\* GetWindowInfo stores the visibility.  On X11 the requests that precede
\* it and XGetWindowAttributes itself fail on a window that is gone: the
\* process is terminated unless the application handles X errors
\* (handled), and then isVisible keeps its default.
StateReadVisible(handled) ==
    /\ Running /\ snap.pc = "probed" /\ snap.op = "GetWindowInfo"
    /\ handled \/ (platform = "X11" /\ ~IsLiveWindow(wins, snap.h))
    /\ LET crash == platform = "X11" /\ ~IsLiveWindow(wins, snap.h) /\ ~handled
       IN /\ proc' = IF crash THEN "crashed" ELSE proc
          /\ snap' = IF crash THEN snap
                     ELSE [snap EXCEPT
                               !.pc = "visible",
                               !.isVisible =
                                   IF platform = "Win32"
                                   THEN NativeIsWindowVisible(wins, snap.h)
                                   ELSE IsViewable(wins, snap.h)]
    /\ UNCHANGED <<platform, facades, impls, conns, wins, call, ev, zorder, scan,
                   xerr>>

\* The state bits are read and the query returns Success.  focused is the
\* answer of the platform's focus query.
StateReadState(f, focused, handled) ==
    /\ Running
    /\ snap.pc = "visible" \/ (snap.pc = "probed" /\ snap.op = "GetWindowState")
    /\ facades[f].st = "live" /\ facades[f].m_impl # 0
    /\ focused \in GetFocusedWindow(platform, impls[facades[f].m_impl], wins)
    /\ handled \/ (platform = "X11" /\ ~IsLiveWindow(wins, snap.h))
    /\ LET crash == platform = "X11" /\ ~IsLiveWindow(wins, snap.h) /\ ~handled
           bits == CASE platform = "X11" -> LinuxStateBits(wins, snap.h, focused)
                     [] snap.op = "GetWindowInfo" ->
                            WindowsInfoState(wins, snap.h, snap.isVisible, focused)
                     [] OTHER -> WindowsGetWindowState(wins, snap.h, focused)
       IN /\ proc' = IF crash THEN "crashed" ELSE proc
          /\ snap' = IF crash THEN snap
                     ELSE [snap EXCEPT !.pc = "done", !.rc = "Success",
                                       !.state = bits]
    /\ UNCHANGED <<platform, facades, impls, conns, wins, call, ev, zorder, scan,
                   xerr>>

\* The caller has taken the result.
StateReturn ==
    /\ Running /\ snap.pc = "done"
    /\ snap' = NoSnap
    /\ UNCHANGED <<platform, facades, impls, conns, wins, call, proc, ev, zorder,
                   scan, xerr>>

\* The conditions a window of SpecState can be in.
FlagSets == {{}, {"hidden"}, {"maximized", "fullscreen", "above"}}

StateWin ==
    {[BaseWin EXCEPT !.shown = s, !.flags = fl] :
         s \in {"normal", "iconic", "hidden"}, fl \in FlagSets}
    \cup {DeadWin}

\* A window changes or disappears: its owner, the user, the window manager
\* or an earlier mutation acts on it.
WindowChanges(h, w) ==
    /\ Running /\ snap.pc # "done"
    /\ IsLiveWindow(wins, h) /\ w # wins[h]
    /\ wins' = [wins EXCEPT ![h] = w]
    /\ snap' = IF snap.pc = "idle" THEN snap ELSE [snap EXCEPT !.moved = TRUE]
    /\ UNCHANGED <<platform, facades, impls, conns, call, proc, ev, zorder, scan,
                   xerr>>

(***************************************************************************)
(* SpecState: the state queries on a desktop whose windows change.  The    *)
(* backend is as constructed or initialized.                               *)
(***************************************************************************)
InitState ==
    /\ platform \in {"Win32", "X11", "macOS"}
    /\ facades = [f \in FacadeIds |->
                     IF \A g \in FacadeIds : f <= g
                     THEN [st |-> "live", m_impl |-> f] ELSE NoFacade]
    /\ \E initialized \in BOOLEAN :
           LET r == IF initialized THEN BackendInitialize(platform, NewImpl, TRUE, 1)
                    ELSE [impl |-> NewImpl, ret |-> FALSE, acquired |-> 0]
           IN /\ impls = [b \in BackendIds |->
                             IF \A g \in BackendIds : b <= g THEN r.impl ELSE NoImpl]
              /\ conns = XOpenDisplay([c \in ConnIds |-> NoConn], r.acquired, 1)
    /\ wins \in [Handles -> StateWin]
    /\ wins[0] = DeadWin
    /\ call = IdleCall
    /\ proc = "running"
    /\ ev = NoEvent
    /\ zorder = Ascending
    /\ scan = NoScan
    /\ snap = NoSnap
    /\ xerr = NoXerr

NextState ==
    \/ \E f \in FacadeIds, op \in StateQueries, h \in Handles : StateBegin(f, op, h)
    \/ \E handled \in BOOLEAN : StateReadVisible(handled)
    \/ \E f \in FacadeIds, focused \in Handles, handled \in BOOLEAN :
           StateReadState(f, focused, handled)
    \/ StateReturn
    \/ \E h \in Windows, w \in StateWin : WindowChanges(h, w)

SpecState == InitState /\ [][NextState]_vars

(***************************************************************************)
(* WindowManagerLinux::IsValidWindow and the X error handler.  Xlib keeps  *)
(* one error handler for the whole process; XSetErrorHandler installs a    *)
(* handler and returns the one it replaces.  IsValidWindow is taken in its *)
(* steps: the m_initialized check, XSetErrorHandler(lambda) into           *)
(* oldHandler, XGetWindowAttributes, XSetErrorHandler(oldHandler).  Each   *)
(* thread calls it on a backend of its own (thread t on backend t); the    *)
(* steps of two threads interleave.  Each XSetErrorHandler is taken as one *)
(* indivisible step.                                                       *)
(***************************************************************************)
ThreadsInUse == {t \in Threads : t <= xerr.threads}

SetThread(t, rec) == [xerr EXCEPT !.thr[t] = rec]

\* A faulty variant of the last step that does not put oldHandler back.
RestoreHandlerKeepsTrap(x, t) ==
    [x EXCEPT !.thr[t].pc = "returned"]

\* XSetErrorHandler(oldHandler); return valid
RestoreHandler(x, t) ==
    [x EXCEPT !.handler = x.thr[t].old, !.thr[t].pc = "returned"]

\* Entry and the m_initialized check: an uninitialized backend returns
\* false at once.
TrapEnter(t, h) ==
    /\ Running /\ t \in ThreadsInUse /\ xerr.thr[t].pc = "idle"
    /\ impls[t].st = "live"
    /\ xerr' = SetThread(t, [IdleThread EXCEPT
                                 !.pc = IF impls[t].m_initialized THEN "entered"
                                        ELSE "returned",
                                 !.h = h, !.entry = xerr.handler])
    /\ UNCHANGED <<platform, facades, impls, conns, wins, call, proc, ev, zorder,
                   scan, snap>>

\* XErrorHandler oldHandler = XSetErrorHandler(lambda)
TrapInstall(t) ==
    /\ Running /\ xerr.thr[t].pc = "entered"
    /\ xerr' = [xerr EXCEPT !.handler = "trap",
                            !.thr[t].old = xerr.handler,
                            !.thr[t].pc = "installed"]
    /\ UNCHANGED <<platform, facades, impls, conns, wins, call, proc, ev, zorder,
                   scan, snap>>

\* valid = XGetWindowAttributes(...) != 0, under the handler that is
\* installed when the error of a window that is gone arrives: Xlib's
\* default handler exits the process, any other handler returns and the
\* request reports failure.
TrapProbe(t) ==
    /\ Running /\ xerr.thr[t].pc = "installed"
    /\ LET live == IsLiveWindow(wins, xerr.thr[t].h)
           crash == ~live /\ xerr.handler = "default"
       IN /\ proc' = IF crash THEN "crashed" ELSE proc
          /\ xerr' = IF crash THEN xerr
                     ELSE [xerr EXCEPT !.thr[t].valid = live,
                                       !.thr[t].pc = "probed"]
    /\ UNCHANGED <<platform, facades, impls, conns, wins, call, ev, zorder, scan,
                   snap>>

TrapRestore(t) ==
    /\ Running /\ xerr.thr[t].pc = "probed"
    /\ xerr' = RestoreHandler(xerr, t)
    /\ UNCHANGED <<platform, facades, impls, conns, wins, call, proc, ev, zorder,
                   scan, snap>>

\* The caller has taken the result.
TrapReturn(t) ==
    /\ Running /\ xerr.thr[t].pc = "returned"
    /\ xerr' = SetThread(t, IdleThread)
    /\ UNCHANGED <<platform, facades, impls, conns, wins, call, proc, ev, zorder,
                   scan, snap>>

(***************************************************************************)
(* SpecTrap: one or two threads, each with an X11 backend of its own that  *)
(* is as constructed or initialized, calling IsValidWindow while windows   *)
(* disappear.  The application runs with Xlib's default error handler or   *)
(* with one of its own.                                                    *)
(***************************************************************************)
InitTrap ==
    /\ platform = "X11"
    /\ facades = [f \in FacadeIds |->
                     IF f \in Threads THEN [st |-> "live", m_impl |-> f]
                     ELSE NoFacade]
    /\ \E up \in SUBSET Threads :
           /\ impls = [b \in BackendIds |->
                          IF b \in up
                          THEN BackendInitialize("X11", NewImpl, TRUE, b).impl
                          ELSE IF b \in Threads THEN NewImpl ELSE NoImpl]
           /\ conns = [c \in ConnIds |->
                          IF c \in up THEN [st |-> "open", owner |-> c] ELSE NoConn]
    /\ wins \in [Handles -> {BaseWin, DeadWin}]
    /\ wins[0] = DeadWin
    /\ call = IdleCall
    /\ proc = "running"
    /\ ev = NoEvent
    /\ zorder = Ascending
    /\ scan = NoScan
    /\ snap = NoSnap
    /\ \E app \in {"default", "app"}, n \in Threads :
           xerr = [NoXerr EXCEPT !.handler = app, !.app = app, !.threads = n]

NextTrap ==
    \/ \E t \in Threads, h \in Handles : TrapEnter(t, h)
    \/ \E t \in Threads : TrapInstall(t)
    \/ \E t \in Threads : TrapProbe(t)
    \/ \E t \in Threads : TrapRestore(t)
    \/ \E t \in Threads : TrapReturn(t)
    \/ \E h \in Windows : WindowDies(h)

SpecTrap == InitTrap /\ [][NextTrap]_vars

(***************************************************************************)
(* Properties of the lifecycle and of facade ownership (SpecFacade).       *)
(***************************************************************************)
NoDoubleClose == \A c \in ConnIds : conns[c].st # "corrupt"

\* C5: Initialize on an already initialized backend returns true and
\* acquires no second native resource; a backend holds at most one open
\* display connection, the one m_display names, and none when its most
\* recent lifecycle call is a Shutdown.
C5_InitializeIdempotent ==
    /\ (ev.op = "Initialize" /\ ev.preInit) =>
           /\ ev.ret /\ ev.acquired = 0
           /\ impls[ev.b].m_initialized
    /\ \A b \in BackendIds :
           /\ Cardinality(OpenConnsOf(b)) <= 1
           /\ OpenConnsOf(b) \subseteq {impls[b].m_display}
           /\ impls[b].life = "Shutdown" => OpenConnsOf(b) = {}

\* C5 witness: a second Initialize on an X11 backend that holds its connection.
C5_Witness ==
    /\ platform = "X11"
    /\ ev.op = "Initialize" /\ ev.preInit /\ ev.ret /\ ev.prevLife = "InitTrue"
    /\ OpenConnsOf(ev.b) # {}

\* C6: a Shutdown that directly follows a Shutdown leaves the backend's
\* fields as they were and makes no native release call; after every
\* Shutdown the backend is not initialized; no connection is closed twice.
C6_ShutdownIdempotent ==
    /\ (ev.op = "Shutdown" /\ ev.prevLife = "Shutdown") =>
           ev.same /\ ev.released = 0
    /\ ev.op = "Shutdown" =>
           /\ ~IsInitialized(platform, impls[ev.b])
           /\ impls[ev.b].m_display = 0
    /\ NoDoubleClose

\* C6 witness: two Shutdown calls in a row on a live X11 backend.
C6_Witness ==
    /\ platform = "X11"
    /\ ev.op = "Shutdown" /\ ev.prevLife = "Shutdown" /\ ev.released = 0
    /\ impls[ev.b].st = "live"

\* C8: an Initialize that cannot acquire the platform resource returns false
\* with a non-empty last error, and leaves the backend uninitialized with no
\* connection; the Shutdown that follows it, called directly or by a
\* destructor, makes no native release call, and nothing is closed twice.
C8_FailedInitialize ==
    /\ (ev.op = "Initialize" /\ ~ev.ret) =>
           /\ ev.acquired = 0
           /\ impls[ev.b].st = "live" =>
                  /\ impls[ev.b].m_lastError # ""
                  /\ ~IsInitialized(platform, impls[ev.b])
                  /\ impls[ev.b].m_display = 0
                  /\ OpenConnsOf(ev.b) = {}
    /\ (ev.op = "Shutdown" /\ ev.prevLife = "InitFalse") => ev.released = 0
    /\ NoDoubleClose

\* C8 witness: an X11 backend destroyed after its Initialize failed.
C8_Witness ==
    /\ platform = "X11"
    /\ ev.op = "Shutdown" /\ ev.prevLife = "InitFalse"
    /\ impls[ev.b].st = "destroyed"

\* C9: while a facade is being destroyed and once it is destroyed, the
\* backend it owned is not initialized and holds no open connection, and no
\* connection is closed twice: the Shutdown of the backend destructor, which
\* follows the one of the facade destructor, releases nothing.
C9_DestroyReleasesOnce ==
    /\ \A f \in FacadeIds :
           (facades[f].st = "dying" /\ facades[f].m_impl # 0) =>
               /\ ~IsInitialized(platform, impls[facades[f].m_impl])
               /\ OpenConnsOf(facades[f].m_impl) = {}
    /\ \A b \in BackendIds : impls[b].st = "destroyed" => OpenConnsOf(b) = {}
    /\ (ev.op = "Shutdown" /\ ev.prevLife = "Shutdown") => ev.released = 0
    /\ NoDoubleClose

\* C9 witness: the destructor of a facade whose X11 backend was initialized
\* has closed the connection and is about to delete the backend.
C9_Witness ==
    /\ platform = "X11"
    /\ \E f \in FacadeIds :
           /\ facades[f].st = "dying" /\ facades[f].m_impl = ev.b
           /\ ev.op = "Shutdown" /\ ev.preInit /\ ev.released # 0
           /\ conns[ev.released].st = "free"

\* The facades that own backend b.
OwnersOf(b) ==
    {f \in FacadeIds : facades[f].st \in {"live", "dying"} /\ facades[f].m_impl = b}

\* A backend is alive exactly while one facade owns it; an open connection
\* is the one its live owner's m_display names; nothing is closed twice.
SingleOwnership ==
    /\ \A b \in BackendIds :
           /\ Cardinality(OwnersOf(b)) <= 1
           /\ impls[b].st = "live" <=> OwnersOf(b) # {}
    /\ \A c \in ConnIds :
           conns[c].st = "open" =>
               /\ impls[conns[c].owner].st = "live"
               /\ impls[conns[c].owner].m_display = c
    /\ NoDoubleClose

\* A step that hands a backend to another facade leaves the backend's
\* fields and its connection as they were.
MoveKeepsBackend ==
    \A b \in BackendIds :
        (OwnersOf(b) # {} /\ OwnersOf(b)' # {} /\ OwnersOf(b)' # OwnersOf(b)) =>
            /\ impls'[b] = impls[b]
            /\ OpenConnsOf(b)' = OpenConnsOf(b)

\* A destructor step of a moved-from facade touches no backend.
DestroyMovedFrom ==
    \A f \in FacadeIds :
        (/\ facades[f].st \in {"live", "dying"} /\ facades[f].m_impl = 0
         /\ facades'[f].st \in {"dying", "destroyed"}
         /\ facades'[f].st # facades[f].st) =>
            impls' = impls /\ conns' = conns

\* C10: for any sequence of construction, Initialize, moves and destruction,
\* a backend is owned by at most one facade, a moved backend keeps its
\* initialized state and connection, destroying a moved-from facade touches
\* no backend, a replaced or destroyed backend holds no open connection, and
\* no connection is closed twice.  A forwarding call on a moved-from facade
\* (undefined behaviour) is the only step that can stop the process, and it
\* changes no backend.
C10_Ownership ==
    /\ []SingleOwnership
    /\ [][MoveKeepsBackend /\ DestroyMovedFrom]_vars
    /\ [](proc = "crashed" =>
             \E f \in FacadeIds : facades[f].st = "live" /\ facades[f].m_impl = 0)

\* C10 witness: a facade owns, by move assignment, an initialized X11 backend
\* another facade made; the backend it replaced was destroyed and its
\* connection closed.
C10_Witness ==
    /\ platform = "X11"
    /\ \E f \in FacadeIds :
           /\ facades[f].st = "live"
           /\ facades[f].m_impl \notin {0, f}
           /\ impls[facades[f].m_impl].m_initialized
           /\ OpenConnsOf(facades[f].m_impl) # {}
           /\ impls[f].st = "destroyed"
           /\ ev.op = "Shutdown" /\ ev.b = f /\ ev.released # 0

(***************************************************************************)
(* Properties of the operations (Spec).                                    *)
(***************************************************************************)
\* What an operation answers on a backend that is not initialized.
UninitializedAnswer(p, op) ==
    CASE p = "Stub" -> "NotSupported"
      [] op = "GetFocusedWindowInfo" -> "WindowNotFound"
      [] p = "macOS" /\ op \in MacUnsupported -> "NotSupported"
      [] OTHER -> "NotInitialized"

\* C1, as amended: on a backend that is not initialized, for every handle,
\* the handle-taking queries and the mutations return NotInitialized on
\* Win32, X11 and macOS, except that GetFocusedWindowInfo returns
\* WindowNotFound and the three unsupported macOS mutations return
\* NotSupported; on the stub every one of them returns NotSupported.  None
\* of them gets as far as a follow-up native call.
C1_Uninitialized ==
    /\ (call.pc = "done" /\ ~call.preInit
        /\ call.op \in ResultQueries \cup Mutations) =>
           call.rc = UninitializedAnswer(platform, call.op)
    /\ call.pc = "pending" => call.preInit

\* C1 witness: GetWindowInfo of a live window on an X11 backend after
\* Shutdown has returned NotInitialized.
C1_Witness ==
    /\ platform = "X11"
    /\ call.pc = "done" /\ call.op = "GetWindowInfo"
    /\ ~call.preInit /\ call.preLive /\ call.rc = "NotInitialized"
    /\ ev.op = "Shutdown"

\* C1 as stated: on every backend that is not initialized, every
\* Result-returning query and every mutation returns NotInitialized.
C1_AsStated ==
    (call.pc = "done" /\ ~call.preInit
     /\ call.op \in ResultQueries \cup Mutations) =>
        call.rc = "NotInitialized"

\* The mutations C2 is about.
GuardedMutation ==
    /\ call.op \in Mutations
    /\ platform \in {"Win32", "X11", "macOS"}
    /\ ~(platform = "macOS" /\ call.op \in MacUnsupported)

\* C2: a guarded mutation on a backend that is not initialized returns
\* NotInitialized, and on an initialized backend with a handle that names no
\* live window InvalidHandle; either way it issues no native mutating call
\* and changes no window.
C2_GuardedMutation ==
    /\ (call.pc = "done" /\ GuardedMutation
        /\ (~call.preInit \/ ~call.preLive)) =>
           /\ call.rc = IF ~call.preInit THEN "NotInitialized" ELSE "InvalidHandle"
           /\ call.native = <<>>
           /\ ~call.changed
    /\ (call.pc = "pending" /\ GuardedMutation) => call.preInit /\ call.preLive

\* C2 witness: ForceCloseWindow on an initialized X11 backend, on the handle
\* of a window that is gone while another window lives, has returned
\* InvalidHandle.
C2_Witness ==
    /\ platform = "X11"
    /\ call.pc = "done" /\ call.op = "ForceCloseWindow"
    /\ call.h \in Windows /\ call.preInit /\ ~call.preLive
    /\ call.rc = "InvalidHandle"
    /\ \E w \in Windows : IsLiveWindow(wins, w)

\* C3: IsWindowVisible and IsValidWindow answer true or false, never an
\* error; on a backend that is not initialized, or for a handle that names
\* no live window when they are called, they answer false and the process
\* keeps running.
C3_BoolQueries ==
    /\ (call.pc = "done" /\ call.op \in BoolQueries) =>
           call.rc \in {"true", "false"}
    /\ (call.op \in BoolQueries /\ (~call.preInit \/ ~call.preLive)) =>
           /\ call.pc = "done" /\ call.rc = "false"
           /\ proc = "running"

\* C3 witness: IsWindowVisible on an initialized Win32 backend, on a non-null
\* handle whose window is gone, has answered false.
C3_Witness ==
    /\ platform = "Win32"
    /\ call.pc = "done" /\ call.op = "IsWindowVisible"
    /\ call.h \in Windows /\ call.preInit /\ ~call.preLive
    /\ call.rc = "false"

\* C4 as stated: a window that dies at any moment never terminates the
\* calling process; only ForceCloseWindow may.
C4_NeverTerminates == proc = "crashed" => call.op = "ForceCloseWindow"

\* C7: on Win32, X11 and macOS a backend is initialized exactly when its
\* most recent lifecycle call is an Initialize that returned true, so it is
\* not initialized after a Shutdown; on an initialized backend no operation
\* answers NotInitialized.
C7_LifecycleState ==
    /\ platform # "Stub" =>
           \A b \in BackendIds :
               impls[b].st = "live" =>
                   (IsInitialized(platform, impls[b]) <=> impls[b].life = "InitTrue")
    /\ (platform # "Stub" /\ call.pc = "done" /\ call.preInit) =>
           call.rc # "NotInitialized"

\* C7 witness: on X11, after a Shutdown and an Initialize that succeeded
\* again, MinimizeWindow on a live window has returned Success.
C7_Witness ==
    /\ platform = "X11"
    /\ ev.op = "Initialize" /\ ev.ret /\ ev.prevLife = "Shutdown"
    /\ impls[ev.b].m_initialized
    /\ call.pc = "done" /\ call.op = "MinimizeWindow" /\ call.rc = "Success"

(***************************************************************************)
(* Properties of the enumeration calls (SpecEnum).                         *)
(***************************************************************************)
\* The backend of the facade that makes the calls.
FirstImpl == impls[1]

\* p occurs in t as a contiguous run of characters.
IsSubstring(p, t) ==
    \E i \in 1 .. Len(t) + 1 : \E j \in i - 1 .. Len(t) : SubSeq(t, i, j) = p

\* The title search as the claim words it.
TitleContains(h, pattern, caseSensitive) ==
    IF caseSensitive THEN IsSubstring(pattern, wins[h].title)
    ELSE IsSubstring(ToLower(pattern), ToLower(wins[h].title))

\* C11 as stated: on an initialized backend and a desktop that does not
\* change, FindWindowsByTitle(pattern, caseSensitive) returns exactly the
\* windows of GetAllWindows(), in the same order, whose title contains the
\* pattern, both lowercased unless caseSensitive.
C11_FindWindowsByTitle ==
    (scan.op = "FindWindowsByTitle" /\ scan.preInit) =>
        LET Hit(h) == TitleContains(h, scan.pattern, scan.cs)
        IN /\ scan.pc = "done"
           /\ scan.result =
                  SelectSeq(GetAllWindows(platform, FirstImpl, wins, zorder), Hit)

\* C12 as stated: on an initialized backend and a desktop that does not
\* change, FindWindowsByProcess(name) returns exactly the windows of
\* GetAllWindows() whose process display name, lowercased, contains the
\* lowercased name; a window whose process name cannot be resolved is
\* returned only for the empty name.
C12_FindWindowsByProcess ==
    (scan.op = "FindWindowsByProcess" /\ scan.preInit) =>
        LET Hit(h) == IsSubstring(ToLower(scan.pattern), ToLower(wins[h].pname))
        IN /\ scan.pc = "done"
           /\ scan.result =
                  SelectSeq(GetAllWindows(platform, FirstImpl, wins, zorder), Hit)
           /\ \A i \in 1 .. Len(scan.result) :
                  wins[scan.result[i]].pname = <<>> => scan.pattern = <<>>

\* C13: on every backend, on a desktop that does not change,
\* EnumerateWindows with a visitor that always returns true invokes the
\* visitor on exactly the windows GetAllWindows() returns, once each and in
\* the same order; on a backend that is not initialized the visitor is never
\* invoked and GetAllWindows() returns nothing.
C13_EnumerateAll ==
    /\ (scan.op = "EnumerateWindows" /\ scan.stop = 0) =>
           /\ scan.pc = "done"
           /\ scan.visits = GetAllWindows(platform, FirstImpl, wins, zorder)
           /\ \A i, j \in 1 .. Len(scan.visits) :
                  scan.visits[i] = scan.visits[j] => i = j
    /\ (scan.op = "EnumerateWindows" /\ ~scan.preInit) => scan.visits = <<>>
    /\ (scan.op = "GetAllWindows" /\ ~scan.preInit) => scan.result = <<>>

\* C13 witness: on X11, with a client list in descending order that names a
\* window that is gone, the visitor was invoked on the other windows.
C13_Witness ==
    /\ platform = "X11" /\ zorder = Descending
    /\ scan.pc = "done" /\ scan.op = "EnumerateWindows" /\ scan.stop = 0
    /\ scan.preInit /\ scan.visits # <<>>
    /\ \E h \in Windows : wins[h] = StaleWin

\* The prefix of seq that ends with element number n, all of seq when it has
\* no such element.
UpTo(seq, n) == IF n \in 1 .. Len(seq) THEN SubSeq(seq, 1, n) ELSE seq

\* An EnumerateWindows step leaves the backend, its last-error text
\* included, and the process as they were.
EnumerateReportsNothing ==
    (scan'.op = "EnumerateWindows" /\ scan.pc = "idle") =>
        impls' = impls /\ proc' = proc

\* C14: EnumerateWindows stops the walk the first time the visitor returns
\* false: the windows visited are those GetAllWindows() lists up to and
\* including that one, and no error is reported; a visitor that returns
\* false on its first call is invoked exactly once when a window is
\* enumerable.
C14_StopsOnFalse ==
    /\ [](scan.op = "EnumerateWindows" =>
             LET all == GetAllWindows(platform, FirstImpl, wins, zorder)
             IN /\ scan.pc = "done" /\ proc = "running"
                /\ scan.visits = UpTo(all, scan.stop)
                /\ (scan.stop = 1 /\ all # <<>>) => Len(scan.visits) = 1)
    /\ [][EnumerateReportsNothing]_vars

\* C14 witness: on macOS, with two windows enumerable, the visitor returned
\* false on its first call and was invoked once.
C14_Witness ==
    /\ platform = "macOS"
    /\ scan.pc = "done" /\ scan.op = "EnumerateWindows" /\ scan.stop = 1
    /\ Len(GetAllWindows(platform, FirstImpl, wins, zorder)) = 2
    /\ Len(scan.visits) = 1

\* C15: on an initialized backend and a desktop that does not change, for
\* every handle h GetAllWindows() returned, IsValidWindow(h) is true and
\* GetWindowInfo(h) returns Success with value.handle equal to h.
C15_ReturnedHandlesValid ==
    (scan.op = "GetAllWindows" /\ scan.preInit /\ scan.i # 0) =>
        /\ proc = "running"
        /\ scan.valid = "true"
        /\ scan.info = [rc |-> "Success", handle |-> scan.result[scan.i]]

\* C15 witness: on X11, with a client list that names a window that is
\* gone, the handle GetAllWindows returned was probed and looked up.
C15_Witness ==
    /\ platform = "X11"
    /\ scan.op = "GetAllWindows" /\ scan.preInit /\ scan.i = 1
    /\ scan.valid = "true" /\ scan.info.rc = "Success"
    /\ \E h \in Windows : wins[h] = StaleWin

\* The handles of a sequence.
Range(seq) == {seq[i] : i \in 1 .. Len(seq)}

\* C16, as amended: on an initialized Win32 backend GetAllWindows() returns,
\* in the order of the platform's list, exactly the top-level windows that
\* are visible, have no owner and have a non-empty title: every such window
\* is returned, and no other window, in particular no window that is not
\* visible.
C16_Win32TopLevel ==
    (platform = "Win32" /\ scan.op = "GetAllWindows" /\ scan.preInit) =>
        LET User(h) == /\ wins[h].alive /\ wins[h].shown # "hidden"
                       /\ ~wins[h].owned /\ wins[h].title # <<>>
        IN scan.result = SelectSeq(zorder, User)

\* C16 witness: GetAllWindows on Win32 returned one window and left out a
\* titled window without owner that is not visible.
C16_Witness ==
    /\ platform = "Win32"
    /\ scan.pc = "done" /\ scan.op = "GetAllWindows" /\ scan.preInit
    /\ Len(scan.result) = 1
    /\ \E h \in Windows : wins[h] = [BaseWin EXCEPT !.shown = "hidden"]

\* C16 as stated: on Win32 GetAllWindows() returns exactly the top-level
\* windows without owner and with a non-empty title, whatever their
\* visibility.
C16_AsStated ==
    (platform = "Win32" /\ scan.op = "GetAllWindows" /\ scan.preInit) =>
        Range(scan.result) =
            {h \in Windows : wins[h].alive /\ ~wins[h].owned /\ wins[h].title # <<>>}

\* The opacity the claims call clamped: the closest value of [0.0, 1.0], in
\* quarters.
Clamped(opacity) == IF opacity < 0 THEN 0 ELSE IF opacity > 4 THEN 4 ELSE opacity

\* C17: SetWindowOpacity on an initialized Win32 or X11 backend with a valid
\* handle clamps its input to [0.0, 1.0] before any use: the native value is
\* one the clamped input produces, it is never one that only the raw input
\* produces, and on Win32 the inputs -1.0, 0.5 and 2.0 give the alpha bytes
\* of 0.0, 0.5 and 1.0.
C17_OpacityClamped ==
    (scan.op = "SetWindowOpacity" /\ platform \in {"Win32", "X11"}
        /\ scan.preInit /\ wins[scan.h].alive) =>
        /\ scan.rc = "Success"
        /\ scan.native \in OpacityNatives(platform, Clamped(scan.opacity), scan.bits)
        /\ platform = "Win32" =>
               /\ scan.opacity = 0 - 4 => scan.native = <<0>>
               /\ scan.opacity = 2 => scan.native = <<127>>
               /\ scan.opacity = 8 => scan.native = <<255>>
        /\ platform = "X11" =>
               /\ scan.opacity = 0 - 4 => scan.native = <<0, 0>>
               /\ scan.opacity = 2 => scan.native = <<2^15, 0>>

\* C17 witness: an input of 2.0 on Win32 reached the native call as the
\* alpha byte of 1.0.
C17_Witness ==
    /\ platform = "Win32"
    /\ scan.pc = "done" /\ scan.op = "SetWindowOpacity"
    /\ scan.opacity = 8 /\ scan.rc = "Success" /\ scan.native = <<255>>

\* C18 as stated: on X11 the opacity property SetWindowOpacity writes is a
\* 32-bit unsigned value that grows with the clamped opacity over the full
\* unsigned range: 0.0 writes 0, 0.5 writes the middle of the range, 1.0
\* writes 0xFFFFFFFF, and no input writes a value that wrapped.
C18_OpacityScale ==
    (scan.op = "SetWindowOpacity" /\ platform = "X11" /\ scan.rc = "Success") =>
        LET c == Clamped(scan.opacity)
        IN /\ Len(scan.native) = 2
           /\ scan.native[1] \in 0 .. 2^16 - 1 /\ scan.native[2] \in 0 .. 2^16 - 1
           /\ c = 0 => scan.native = <<0, 0>>
           /\ c = 2 => scan.native[1] \in {2^15 - 1, 2^15}
           /\ c = 4 => scan.native = <<2^16 - 1, 2^16 - 1>>

(***************************************************************************)
(* Properties of the backends without support (Spec, SpecStub).            *)
(***************************************************************************)
\* A call of one of the three mutations macOS does not support starts and
\* the desktop stays as it is.
UnsupportedKeepsWindows ==
    (platform = "macOS" /\ call.pc = "idle" /\ call'.op \in MacUnsupported) =>
        wins' = wins

\* C19: on the macOS backend SetAlwaysOnTop, SetWindowTitle and
\* SetWindowOpacity return NotSupported for every handle, valid or not,
\* whether the backend is initialized or not; they make no native call and
\* change no window.
C19_MacOSUnsupported ==
    /\ []((platform = "macOS" /\ call.op \in MacUnsupported) =>
             /\ call.pc = "done" /\ call.rc = "NotSupported"
             /\ call.native = <<>> /\ ~call.changed)
    /\ [][UnsupportedKeepsWindows]_vars

\* C19 witness: SetWindowTitle on an initialized macOS backend, called with
\* a handle that names a live window, returned NotSupported.
C19_Witness ==
    /\ platform = "macOS"
    /\ call.pc = "done" /\ call.op = "SetWindowTitle"
    /\ call.preInit /\ call.preLive /\ call.rc = "NotSupported"

\* C20: on the stub backend, whatever was called before: Initialize returns
\* false and leaves a last-error text, the backend is never initialized,
\* every query and every mutation returns NotSupported, IsWindowVisible and
\* IsValidWindow return false, the enumeration calls return nothing and
\* never invoke the visitor, and no call stops the process.
C20_Stub ==
    /\ proc = "running"
    /\ \A b \in BackendIds :
           impls[b].st = "live" =>
               ~IsInitialized(platform, impls[b]) /\ ~impls[b].m_initialized
    /\ ev.op = "Initialize" =>
           /\ ~ev.ret /\ ev.acquired = 0
           /\ impls[ev.b].m_lastError = "Platform not supported"
    /\ call.pc \in {"idle", "done"}
    /\ (call.pc = "done" /\ call.op \in ResultQueries \cup Mutations) =>
           call.rc = "NotSupported" /\ call.native = <<>> /\ ~call.changed
    /\ (call.pc = "done" /\ call.op \in BoolQueries) => call.rc = "false"
    /\ scan.pc \in {"idle", "done"}
    /\ scan.result = <<>> /\ scan.visits = <<>>

\* C20 witness: after an Initialize that returned false, MinimizeWindow on
\* a live window returned NotSupported.
C20_Witness ==
    /\ platform = "Stub"
    /\ ev.op = "Initialize" /\ ~ev.ret
    /\ call.pc = "done" /\ call.op = "MinimizeWindow" /\ call.preLive
    /\ call.rc = "NotSupported"

\* C20 witness of the enumeration: after an Initialize that returned false,
\* EnumerateWindows on a desktop with a live window returned without a
\* visit.
C20_EnumWitness ==
    /\ platform = "Stub"
    /\ ev.op = "Initialize" /\ ~ev.ret
    /\ scan.pc = "done" /\ scan.op = "EnumerateWindows" /\ scan.visits = <<>>
    /\ \E h \in Windows : wins[h].alive

(***************************************************************************)
(* Properties of the focus query and of the mutations (Spec).              *)
(***************************************************************************)
\* GetFocusedWindowInfo starts as GetWindowInfo starts on the handle
\* GetFocusedWindow answered with, unless that handle is the null sentinel.
FocusedInfoBegins ==
    (call.pc = "idle" /\ call'.op = "GetFocusedWindowInfo") =>
        LET r == IF call'.h = 0 THEN "WindowNotFound"
                 ELSE Begin(platform, FirstImpl, wins, "GetWindowInfo", call'.h)
        IN /\ call'.h \in GetFocusedWindow(platform, FirstImpl, wins)
           /\ call'.pc = (IF r = "Pending" THEN "pending" ELSE "done")
           /\ call'.rc = (IF r = "Pending" THEN "none" ELSE r)

\* GetFocusedWindowInfo ends as GetWindowInfo ends on that handle: with the
\* same result, or with the process terminated where GetWindowInfo
\* terminates it.
FocusedInfoFinishes ==
    (call.pc = "pending" /\ call.op = "GetFocusedWindowInfo"
        /\ (call' # call \/ proc' # proc)) =>
        \E x \in Handles, granted \in BOOLEAN :
            LET r == Body(platform, wins, "GetWindowInfo", call.h, x, granted)
            IN /\ (proc' = "crashed") = r.crash
               /\ ~r.crash => /\ call'.pc = "done" /\ call'.rc = r.rc
                              /\ call'.native = <<>> /\ wins' = wins

\* C21: on the Win32, X11 and macOS backends GetFocusedWindowInfo returns
\* WindowNotFound exactly when GetFocusedWindow returned the null sentinel,
\* and otherwise its outcome is the outcome of GetWindowInfo on the focused
\* handle.
C21_FocusedWindowInfo ==
    /\ []((platform # "Stub" /\ call.op = "GetFocusedWindowInfo"
              /\ call.pc = "done") =>
             (call.rc = "WindowNotFound") = (call.h = 0))
    /\ [][platform # "Stub" => FocusedInfoBegins /\ FocusedInfoFinishes]_vars

\* C21 witness: on X11 the active-window property named a window that is
\* gone, and GetFocusedWindowInfo returned what GetWindowInfo returns for it.
C21_Witness ==
    /\ platform = "X11"
    /\ call.pc = "done" /\ call.op = "GetFocusedWindowInfo"
    /\ call.h # 0 /\ ~call.preLive /\ call.rc = "InvalidHandle"

\* The operation ShowWindow and HideWindow are said to equal on macOS.
Twin(op) == IF op = "ShowWindow" THEN "RestoreWindow" ELSE "MinimizeWindow"

\* ShowWindow / HideWindow start as their twin starts: same early return
\* code or same continuation, and the backend is left as it was.
TwinBegins ==
    (call.pc = "idle" /\ call'.op \in {"ShowWindow", "HideWindow"}) =>
        LET r == Begin(platform, FirstImpl, wins, Twin(call'.op), call'.h)
        IN /\ call'.pc = (IF r = "Pending" THEN "pending" ELSE "done")
           /\ call'.rc = (IF r = "Pending" THEN "none" ELSE r)
           /\ impls' = impls /\ wins' = wins

\* ShowWindow / HideWindow end as their twin ends on the accessibility
\* window the platform hands out: same return code, same native calls, same
\* desktop afterwards.
TwinFinishes ==
    (call.pc = "pending" /\ call.op \in {"ShowWindow", "HideWindow"}
        /\ call' # call) =>
        \E granted \in BOOLEAN :
            \E x \in GetAXWindowForPid(wins, PidOf(call.h), granted) :
                LET r == Body(platform, wins, Twin(call.op), call.h, x, granted)
                IN /\ call'.pc = "done" /\ call'.rc = r.rc
                   /\ call'.native = r.native /\ wins' = r.wins

\* C24: on the macOS backend, for every handle and every backend state,
\* ShowWindow has the return value and the effect of RestoreWindow, and
\* HideWindow the return value and the effect of MinimizeWindow.
C24_MacOSShowHide == [][platform = "macOS" => TwinBegins /\ TwinFinishes]_vars

\* C24 witness: HideWindow on macOS returned Success and left a window
\* minimized.
C24_Witness ==
    /\ platform = "macOS"
    /\ call.pc = "done" /\ call.op = "HideWindow" /\ call.rc = "Success"
    /\ call.changed
    /\ \E w \in Windows : wins[w].alive /\ wins[w].shown = "iconic"

\* The native calls that un-minimize a window.
RestoreCalls == {"ShowWindow(SW_RESTORE)", "XMapWindow", "AXSet(kAXMinimized,false)"}

\* The follow-up of FocusWindow on a live window: when the window is
\* minimized the first native call un-minimizes it, other calls follow, and
\* the window is no longer minimized afterwards; when it is not minimized
\* no native call is a restore.
FocusOrder ==
    (call.pc = "pending" /\ call.op = "FocusWindow" /\ call'.pc = "done"
        /\ IsLiveWindow(wins, call.h)) =>
        LET log == call'.native
            restores == {i \in 1 .. Len(log) : log[i][1] \in RestoreCalls}
        IN IF wins[call.h].shown = "iconic"
           THEN /\ restores = {1} /\ Len(log) > 1
                /\ wins'[call.h].shown # "iconic"
           ELSE restores = {}

\* C27 as stated: on every backend FocusWindow on a valid handle of a
\* minimized window first un-minimizes the window and only then raises and
\* activates it; on a window that is not minimized it performs no restore
\* step.
C27_FocusRestoresFirst == [][FocusOrder]_vars

\* The mutations of macOS that act on one window through the accessibility
\* element.
WindowGranular ==
    {"FocusWindow", "MinimizeWindow", "HideWindow", "RestoreWindow", "ShowWindow",
     "MaximizeWindow", "CloseWindow", "MoveWindow", "ResizeWindow", "SetWindowRect"}

\* The follow-up of such a mutation addresses its accessibility calls to
\* the window the handle names and changes no other window.
OnlyDesignated ==
    (platform = "macOS" /\ call.pc = "pending" /\ call.op \in WindowGranular
        /\ call'.pc = "done") =>
        /\ \A w \in Windows \ {call.h} : wins'[w] = wins[w]
        /\ \A i \in 1 .. Len(call'.native) :
               call'.native[i][1] # "activateWithOptions" =>
                   call'.native[i][2] = call.h

\* C28 as stated: on macOS the window-granularity part of a mutation (the
\* raise of FocusWindow, and minimize, restore, zoom, close, move, resize)
\* is applied to the window the handle names; no other window of the owning
\* process is changed.
C28_DesignatedWindow == [][OnlyDesignated]_vars

(***************************************************************************)
(* The X11 backend's flag and its connection (SpecFacade).                 *)
(***************************************************************************)
\* C29: on the X11 backend, after every lifecycle call and every
\* destruction, a backend is initialized if and only if m_display names an
\* open display connection of its own; a backend that is not initialized
\* and a backend that was destroyed hold no open connection.
C29_InitializedIffConnected ==
    platform = "X11" =>
        \A b \in BackendIds :
            /\ impls[b].m_initialized = (impls[b].m_display # 0)
            /\ OpenConnsOf(b) =
                   (IF impls[b].m_initialized THEN {impls[b].m_display} ELSE {})
            /\ impls[b].st # "live" => ~impls[b].m_initialized

\* C29 witness: an Initialize that failed on an X11 backend which had been
\* shut down before, while another backend holds its connection.
C29_Witness ==
    /\ platform = "X11"
    /\ ev.op = "Initialize" /\ ~ev.ret /\ ev.prevLife = "Shutdown"
    /\ ~impls[ev.b].m_initialized /\ OpenConnsOf(ev.b) = {}
    /\ \E b \in BackendIds : impls[b].m_initialized /\ OpenConnsOf(b) # {}

(***************************************************************************)
(* Properties of the state queries (SpecState).                            *)
(***************************************************************************)
\* C22 as stated: on X11 the Hidden bit of the state GetWindowState and
\* GetWindowInfo return is set exactly when the window's map state is not
\* viewable (here: for a query during which no window changed).
C22_X11HiddenBit ==
    (platform = "X11" /\ snap.pc = "done" /\ snap.rc = "Success" /\ ~snap.moved) =>
        ("Hidden" \in snap.state) = ~IsViewable(wins, snap.h)

\* C23: on macOS the state GetWindowState and GetWindowInfo return is
\* Normal or exactly Hidden, whatever the window's condition (minimized,
\* zoomed, fullscreen, topmost) and whatever changed it before: no other
\* bit is ever set.
C23_MacOSStateBits ==
    (platform = "macOS" /\ snap.pc = "done" /\ snap.rc = "Success") =>
        /\ snap.state \in {{}, {"Hidden"}}
        /\ snap.state \cap {"Minimized", "Maximized", "Fullscreen", "Focused",
                            "AlwaysOnTop"} = {}

\* C23 witness: the state returned for a minimized window that is zoomed,
\* fullscreen and topmost is exactly Hidden.
C23_Witness ==
    /\ platform = "macOS"
    /\ snap.pc = "done" /\ snap.op = "GetWindowState" /\ snap.rc = "Success"
    /\ wins[snap.h].shown = "iconic"
    /\ wins[snap.h].flags = {"maximized", "fullscreen", "above"}
    /\ snap.state = {"Hidden"}

\* C30: in every successful GetWindowInfo result of the Win32 and macOS
\* backends the Hidden bit is set if and only if isVisible is false, also
\* when the window changed while the result was assembled.
C30_HiddenIffNotVisible ==
    (platform \in {"Win32", "macOS"} /\ snap.op = "GetWindowInfo"
        /\ snap.pc = "done" /\ snap.rc = "Success") =>
        ("Hidden" \in snap.state) = ~snap.isVisible

\* C30 witness: a Win32 GetWindowInfo during which the window was hidden
\* after its visibility had been read: the result says visible and not
\* Hidden, the window is not visible any more.
C30_Witness ==
    /\ platform = "Win32"
    /\ snap.pc = "done" /\ snap.op = "GetWindowInfo" /\ snap.rc = "Success"
    /\ snap.moved /\ snap.isVisible /\ "Hidden" \notin snap.state
    /\ ~NativeIsWindowVisible(wins, snap.h)

(***************************************************************************)
(* Properties of the X error trap (SpecTrap).                              *)
(***************************************************************************)
\* No thread is inside IsValidWindow.
AllReturned == \A t \in Threads : xerr.thr[t].pc \in {"idle", "returned"}

\* C25 as stated: with one X11 backend per thread and two threads calling
\* IsValidWindow concurrently, once both calls have returned the
\* process-wide X error handler is the handler the application had
\* installed before the first call: the swallowing trap is not left
\* installed and the original handler is not lost.
C25_HandlerRestored == AllReturned => xerr.handler = xerr.app

\* A step of a thread on a backend that is not initialized leaves the
\* process-wide handler alone.
UninitializedKeepsHandler ==
    \A t \in Threads :
        (xerr'.thr[t] # xerr.thr[t] /\ ~impls[t].m_initialized) =>
            xerr'.handler = xerr.handler

\* C26: in single-threaded use IsValidWindow on an initialized backend has
\* the swallowing trap installed exactly from its XSetErrorHandler to its
\* restore, with the probing call in between, and returns with the handler
\* that was present at entry, for live and dead handles alike; the probe of
\* a dead handle under the trap does not terminate the process; on an
\* uninitialized backend the handler is never touched.
C26_TrapScoped ==
    /\ [](xerr.threads = 1 =>
             /\ proc = "running"
             /\ \A t \in ThreadsInUse :
                    LET th == xerr.thr[t]
                    IN /\ th.pc \in {"entered", "returned"} =>
                              xerr.handler = th.entry
                       /\ th.pc \in {"installed", "probed"} =>
                              xerr.handler = "trap" /\ th.old = th.entry
                       /\ th.pc = "idle" => xerr.handler = xerr.app
                       /\ (th.pc \in {"probed", "returned"} /\ impls[t].m_initialized
                              /\ IsLiveWindow(wins, th.h)) => th.valid
                       /\ ~impls[t].m_initialized => ~th.valid)
    /\ [][xerr.threads = 1 => UninitializedKeepsHandler]_vars

\* C26 witness: a single thread probed a dead handle under the trap while
\* the application runs with Xlib's default handler, and has returned
\* false with the default handler back in place.
C26_Witness ==
    /\ xerr.threads = 1 /\ xerr.app = "default"
    /\ impls[1].m_initialized
    /\ xerr.thr[1].pc = "returned" /\ xerr.thr[1].old = "default"
    /\ ~xerr.thr[1].valid /\ ~IsLiveWindow(wins, xerr.thr[1].h)
    /\ xerr.handler = "default" /\ proc = "running"

====
